---- MODULE Spec2Model ----
(***************************************************************************)
(* A model of the geospatial feature index of blackd44/rwanda-geo:         *)
(*   - the adaptive spatial grid and the point-in-polygon query            *)
(*     (src/src/hooks/useSpatialIndex.ts),                                 *)
(*   - the hierarchical search index (src/src/lib/search-index.ts) and the *)
(*     search box (src/src/components/shared/location-search.tsx),         *)
(*   - the coordinate parser and formatter (src/src/lib/coords.ts,         *)
(*     src/src/lib/dms.ts),                                                *)
(*   - the URL parameter hook (src/src/hooks/useUrlParam.ts) and the       *)
(*     effects of the map component (src/src/components/RwandaMap.tsx).    *)
(*                                                                         *)
(* Coordinates are integers (a lattice of degrees); every quotient the     *)
(* code computes in floating point is computed here as an exact rational,  *)
(* so the model has none of the rounding of IEEE doubles.  The special     *)
(* doubles the code can produce (NaN, +Infinity, -Infinity) are modelled   *)
(* explicitly.                                                             *)
(***************************************************************************)
EXTENDS Integers, Sequences, FiniteSets, TLC

VARIABLES
    features,          \* the feature array handed to the hooks (immutable)
    pc,                \* where the component is: "init", "built", ...
    spatialGridIndex,  \* the value of the spatialGridIndex memo, or NoIndex
    point,             \* argument of the last getVillageAtLatLng call
    located,           \* its result: a feature index (0-based) or Null
    cellRead,          \* the grid key whose list that call read, or NotRead
    searchIndexMap,    \* the Map built by buildSearchIndexMap: key -> SearchItem
    mapKeys,           \* the keys of that Map in insertion order
    searchIndex,       \* LocationSearch's memo: Array.from(map.values())
    lookupKey,         \* the highlightedId of the last highlightedRegion memo
    highlightedRegion, \* its result: a SearchItem or Null
    query,             \* LocationSearch: the text of the search box
    debouncedQuery,    \* the query as of the last debounce timer that fired
    filterLevel,       \* memo: the level filter parsed from debouncedQuery
    normalizedSearchQuery,  \* memo: the normalized text part of debouncedQuery
    typePrefixSuggestions,  \* memo: the level keywords suggested for query
    results,           \* memo: the ranked, truncated result list
    groupedResults,    \* memo: [nameMatches, parentOnlyMatches]
    input,             \* argument of the last parseCoordinates call
    parsed,            \* its result: [lat, lng] or Null
    latLng,            \* argument of the last latLngToDMS call: [lat, lng]
    location,          \* window.location.search: key -> StringValue or Absent
    paramValue,        \* useUrlParam: the state (value) of one instance of the hook
    defaultValue,      \* useUrlParam: its defaultValue argument
    debounceMs,        \* useUrlParam: its debounceMs argument
    timers,            \* the timers set and not yet fired or cleared, oldest first
    selectedId,        \* RwandaMap: the state of useUrlParam("selected", "", 0)
    mapReady,          \* RwandaMap: mapRef.current is set
    hasInitialZoomed,  \* RwandaMap: hasInitialZoomed.current
    zooms,             \* the calls made by checkAndZoom, oldest first
    clearedIds         \* the values the clear-invalid effects have reset

vars == <<features, pc, spatialGridIndex, point, located, cellRead,
          searchIndexMap, mapKeys, searchIndex, lookupKey, highlightedRegion,
          query, debouncedQuery, filterLevel, normalizedSearchQuery,
          typePrefixSuggestions, results, groupedResults, input, parsed,
          latLng, location, paramValue, defaultValue, debounceMs, timers,
          selectedId, mapReady, hasInitialZoomed, zooms, clearedIds>>

spatialVars == <<spatialGridIndex, point, located, cellRead>>
searchVars == <<searchIndexMap, mapKeys, searchIndex, lookupKey, highlightedRegion>>
queryVars == <<query, debouncedQuery, filterLevel, normalizedSearchQuery,
               typePrefixSuggestions, results, groupedResults>>
coordVars == <<input, parsed, latLng>>
effectVars == <<location, paramValue, defaultValue, debounceMs, timers, selectedId,
                mapReady, hasInitialZoomed, zooms, clearedIds>>

(***************************************************************************)
(* Bounds of the model.                                                    *)
(***************************************************************************)
MaxFeatures == 2      \* longest feature array
MaxCoord == 4         \* query points range over -1 .. MaxCoord + 1

(***************************************************************************)
(* JavaScript values.                                                      *)
(***************************************************************************)
Null == [t |-> "null"]
NoIndex == [t |-> "noindex"]
NotRead == [t |-> "notread"]

\* Doubles: a finite integer, a finite rational n/d (d > 0), NaN, +-Infinity.
Num(n) == [t |-> "num", v |-> n]
Rat(n, d) == [t |-> "rat", n |-> n, d |-> d]
NaN == [t |-> "nan"]
PosInf == [t |-> "inf"]
NegInf == [t |-> "ninf"]

IsNum(x) == x.t = "num"

\* a < b on doubles where a is finite (the only shape the code compares).
JsLess(a, b) ==
    CASE b.t = "num" -> a.v < b.v
      [] b.t = "inf" -> TRUE
      [] OTHER -> FALSE          \* -Infinity, NaN

\* a > b on doubles where a is finite.
JsGreater(a, b) ==
    CASE b.t = "num" -> a.v > b.v
      [] b.t = "ninf" -> TRUE
      [] OTHER -> FALSE          \* +Infinity, NaN

\* Math.min / Math.max of two doubles (NaN is contagious).
MathMin(a, b) ==
    CASE a.t = "nan" \/ b.t = "nan" -> NaN
      [] a.t = "ninf" \/ b.t = "ninf" -> NegInf
      [] a.t = "inf" -> b
      [] b.t = "inf" -> a
      [] OTHER -> IF a.v <= b.v THEN a ELSE b

MathMax(a, b) ==
    CASE a.t = "nan" \/ b.t = "nan" -> NaN
      [] a.t = "inf" \/ b.t = "inf" -> PosInf
      [] a.t = "ninf" -> b
      [] b.t = "ninf" -> a
      [] OTHER -> IF a.v >= b.v THEN a ELSE b

\* a - b where a is finite or infinite and b is finite or infinite.
JsSub(a, b) ==
    CASE a.t = "num" /\ b.t = "num" -> Num(a.v - b.v)
      [] a.t = "num" /\ b.t = "inf" -> NegInf
      [] a.t = "num" /\ b.t = "ninf" -> PosInf
      [] a.t = "inf" /\ b.t = "inf" -> NaN
      [] a.t = "ninf" /\ b.t = "ninf" -> NaN
      [] a.t = "inf" -> PosInf
      [] a.t = "ninf" -> NegInf
      [] OTHER -> NaN

\* range / gridSize: the size of a cell (gridSize is a positive integer).
CellSize(range, gridSize) ==
    IF range.t = "num" THEN Rat(range.v, gridSize) ELSE range

\* a / cell where cell is a cell size (a rational n/d with n >= 0, or an
\* infinity) and a is a difference computed by JsSub.
JsDiv(a, cell) ==
    CASE a.t = "nan" \/ cell.t = "nan" -> NaN
      [] a.t = "num" /\ cell.t = "rat" ->
            IF cell.n = 0
            THEN (IF a.v = 0 THEN NaN ELSE IF a.v > 0 THEN PosInf ELSE NegInf)
            ELSE IF cell.n > 0 THEN Rat(a.v * cell.d, cell.n)
                 ELSE Rat(-(a.v * cell.d), -cell.n)
      [] a.t = "num" -> Num(0)                 \* finite / +-Infinity
      [] cell.t = "rat" ->                     \* +-Infinity / finite
            IF cell.n >= 0 THEN a ELSE (IF a.t = "inf" THEN NegInf ELSE PosInf)
      [] OTHER -> NaN                          \* +-Infinity / +-Infinity

\* Math.floor and Math.ceil.
MathFloor(q) == IF q.t = "rat" THEN Num(q.n \div q.d) ELSE q
MathCeil(q) == IF q.t = "rat" THEN Num(-((-q.n) \div q.d)) ELSE q

(***************************************************************************)
(* Program constants of the grid heuristic.                                *)
(***************************************************************************)
targetFeaturesPerCell == 4
MinGridSize == 30
MaxGridSize == 80

(***************************************************************************)
(* Geometry.  A position is <<lng, lat>> (GeoJSON order); a ring is a      *)
(* sequence of positions; Polygon coordinates are a sequence of rings;     *)
(* MultiPolygon coordinates are a sequence of Polygon coordinates;         *)
(* LineString coordinates are a sequence of positions.                     *)
(***************************************************************************)
Polygon(c) == [type |-> "Polygon", coordinates |-> c]
MultiPolygon(c) == [type |-> "MultiPolygon", coordinates |-> c]
LineString(c) == [type |-> "LineString", coordinates |-> c]

SeqRange(s) == {s[i] : i \in DOMAIN s}

\* Every position of a geometry, holes included.
Positions(g) ==
    CASE g.type = "Polygon" ->
            UNION {SeqRange(ring) : ring \in SeqRange(g.coordinates)}
      [] g.type = "MultiPolygon" ->
            UNION {UNION {SeqRange(ring) : ring \in SeqRange(poly)} :
                   poly \in SeqRange(g.coordinates)}
      [] OTHER -> SeqRange(g.coordinates)

SetMin(S) == CHOOSE m \in S : \A x \in S : m <= x
SetMax(S) == CHOOSE m \in S : \A x \in S : m >= x

\* L.geoJSON(feature).getBounds(): the box of every position of the
\* geometry (Leaflet extends an empty LatLngBounds by each layer's bounds).
\* A LatLngBounds that was never extended has no corners: it is not valid,
\* and getSouth/getNorth/getWest/getEast, which read a corner's lat or lng,
\* throw a TypeError on it.
GetBounds(feature) ==
    LET ps == Positions(feature.geometry) IN
    IF ps = {} THEN [valid |-> FALSE]
    ELSE [valid |-> TRUE,
          south |-> SetMin({q[2] : q \in ps}), north |-> SetMax({q[2] : q \in ps}),
          west |-> SetMin({q[1] : q \in ps}), east |-> SetMax({q[1] : q \in ps})]

\* LatLngBounds.contains(latlng): inclusive on all four sides.
BoundsContains(b, pt) ==
    /\ b.south <= pt[2] /\ pt[2] <= b.north
    /\ b.west <= pt[1] /\ pt[1] <= b.east

\* A variant whose test of the latitudes takes an endpoint at the latitude
\* of the point for one above it.
Intersect_UpperClosed(pt, ring, i, j) ==
    LET xi == ring[i][1]  yi == ring[i][2]
        xj == ring[j][1]  yj == ring[j][2]
    IN /\ (yi >= pt[2]) # (yj >= pt[2])
       /\ IF yj - yi > 0
          THEN (pt[1] - xi) * (yj - yi) < (xj - xi) * (pt[2] - yi)
          ELSE (pt[1] - xi) * (yj - yi) > (xj - xi) * (pt[2] - yi)

\* One edge (ring[i], ring[j]) of the ray cast: the value of `intersect`.
\* point[0] < (xj - xi) * (point[1] - yi) / (yj - yi) + xi is evaluated
\* only when yi # yj, and is compared here without rounding.
Intersect(pt, ring, i, j) ==
    LET xi == ring[i][1]  yi == ring[i][2]
        xj == ring[j][1]  yj == ring[j][2]
    IN /\ (yi > pt[2]) # (yj > pt[2])
       /\ IF yj - yi > 0
          THEN (pt[1] - xi) * (yj - yi) < (xj - xi) * (pt[2] - yi)
          ELSE (pt[1] - xi) * (yj - yi) > (xj - xi) * (pt[2] - yi)

\* The loop for (i = 0, j = ring.length - 1; i < ring.length; j = i++),
\* with 1-based positions.
RECURSIVE RingLoop(_, _, _, _, _)
RingLoop(pt, ring, i, j, inside) ==
    IF i > Len(ring) THEN inside
    ELSE RingLoop(pt, ring, i + 1, i,
                  IF Intersect(pt, ring, i, j) THEN ~inside ELSE inside)

isPointInRing(pt, ring) == RingLoop(pt, ring, 1, Len(ring), FALSE)

\* The hole loop for (i = 1; i < coordinates.length; i++) with early return.
RECURSIVE HoleLoop(_, _, _)
HoleLoop(pt, coordinates, i) ==
    IF i > Len(coordinates) THEN TRUE
    ELSE IF isPointInRing(pt, coordinates[i]) THEN FALSE
    ELSE HoleLoop(pt, coordinates, i + 1)

\* A variant that forgets the hole rings.
isPointInPolygonCoords_NoHoles(pt, coordinates) ==
    IF Len(coordinates) = 0 THEN FALSE
    ELSE isPointInRing(pt, coordinates[1])

isPointInPolygonCoords(pt, coordinates) ==
    IF Len(coordinates) = 0 THEN FALSE
    ELSE IF ~isPointInRing(pt, coordinates[1]) THEN FALSE
    ELSE HoleLoop(pt, coordinates, 2)

\* for (const polygon of geometry.coordinates) if (...) return feature
RECURSIVE MultiLoop(_, _, _)
MultiLoop(pt, polygons, i) ==
    IF i > Len(polygons) THEN FALSE
    ELSE IF isPointInPolygonCoords(pt, polygons[i]) THEN TRUE
    ELSE MultiLoop(pt, polygons, i + 1)

\* The geometry dispatch of getVillageAtLatLng: TRUE iff `return feature`.
GeometryTest(pt, geometry) ==
    IF geometry.type = "Polygon"
    THEN isPointInPolygonCoords(pt, geometry.coordinates)
    ELSE IF geometry.type = "MultiPolygon"
    THEN MultiLoop(pt, geometry.coordinates, 1)
    ELSE FALSE

(***************************************************************************)
(* Construction of the grid (the spatialGridIndex memo).                   *)
(***************************************************************************)
\* Math.ceil(Math.sqrt(n / targetFeaturesPerCell))
optimalGridSize(n) ==
    CHOOSE k \in 0..n : /\ targetFeaturesPerCell * k * k >= n
                        /\ \A m \in 0..(k - 1) : targetFeaturesPerCell * m * m < n

gridSizeOf(n) ==
    LET o == optimalGridSize(n)
        capped == IF MaxGridSize <= o THEN MaxGridSize ELSE o
    IN IF MinGridSize >= capped THEN MinGridSize ELSE capped

\* Integers lo..hi of a for loop whose limits are doubles: the loop body
\* never runs when a limit is NaN, and a limit is never infinite after the
\* clamp unless the other one stops the loop.
LoopRange(lo, hi) == IF IsNum(lo) /\ IsNum(hi) THEN lo.v .. hi.v ELSE {}

\* A variant that registers a feature in the cell of its south-west corner
\* only.
FeatureKeys_OneCell(b, gridSize, minLat, minLng, cellLatSize, cellLngSize) ==
    LET south == MathFloor(JsDiv(JsSub(Num(b.south), minLat), cellLatSize))
        west == MathFloor(JsDiv(JsSub(Num(b.west), minLng), cellLngSize))
        rows == LoopRange(MathMax(Num(0), south), MathMax(Num(0), south))
        cols == LoopRange(MathMax(Num(0), west), MathMax(Num(0), west))
    IN {row * gridSize + col : row \in rows, col \in cols}

\* The cells a feature's bounds overlap: the keys pushed for one feature.
FeatureKeys(b, gridSize, minLat, minLng, cellLatSize, cellLngSize) ==
    LET south == MathFloor(JsDiv(JsSub(Num(b.south), minLat), cellLatSize))
        north == MathCeil(JsDiv(JsSub(Num(b.north), minLat), cellLatSize))
        west == MathFloor(JsDiv(JsSub(Num(b.west), minLng), cellLngSize))
        east == MathCeil(JsDiv(JsSub(Num(b.east), minLng), cellLngSize))
        rows == LoopRange(MathMax(Num(0), south), MathMin(Num(gridSize - 1), north))
        cols == LoopRange(MathMax(Num(0), west), MathMin(Num(gridSize - 1), east))
    IN {row * gridSize + col : row \in rows, col \in cols}

\* features.forEach((_feature, index) => ... grid.get(k).push(index)),
\* from feature i (1-based) on; indices stored are 0-based.
RECURSIVE IndexFeatures(_, _, _, _)
IndexFeatures(keysOf, n, i, grid) ==
    IF i > n THEN grid
    ELSE IndexFeatures(keysOf, n, i + 1,
            [k \in DOMAIN grid \cup keysOf[i] |->
                IF k \in keysOf[i]
                THEN Append(IF k \in DOMAIN grid THEN grid[k] ELSE <<>>, i - 1)
                ELSE grid[k]])

RECURSIVE FoldMin(_, _, _)
FoldMin(vals, i, acc) ==
    IF i > Len(vals) THEN acc ELSE FoldMin(vals, i + 1, MathMin(acc, Num(vals[i])))

RECURSIVE FoldMax(_, _, _)
FoldMax(vals, i, acc) ==
    IF i > Len(vals) THEN acc ELSE FoldMax(vals, i + 1, MathMax(acc, Num(vals[i])))

\* A variant that also throws on an empty feature array (a reduce without
\* an initial value).
BuildThrows_OnEmpty(fs) ==
    Len(fs) = 0 \/ \E i \in DOMAIN fs : ~GetBounds(fs[i]).valid

\* TRUE iff the construction throws: bounds.getSouth() reads a corner of a
\* LatLngBounds that has none (TypeError).
BuildThrows(fs) == \E i \in DOMAIN fs : ~GetBounds(fs[i]).valid

\* The record returned by the memo, for a feature array all of whose
\* bounds have corners.
BuildSpatialGridIndex(fs) ==
    LET n == Len(fs)
        gridSize == gridSizeOf(n)
        featureBounds == [i \in 1..n |-> GetBounds(fs[i])]
        minLat == FoldMin([i \in 1..n |-> featureBounds[i].south], 1, PosInf)
        maxLat == FoldMax([i \in 1..n |-> featureBounds[i].north], 1, NegInf)
        minLng == FoldMin([i \in 1..n |-> featureBounds[i].west], 1, PosInf)
        maxLng == FoldMax([i \in 1..n |-> featureBounds[i].east], 1, NegInf)
        cellLatSize == CellSize(JsSub(maxLat, minLat), gridSize)
        cellLngSize == CellSize(JsSub(maxLng, minLng), gridSize)
        keysOf == [i \in 1..n |->
                     FeatureKeys(featureBounds[i], gridSize, minLat, minLng,
                                 cellLatSize, cellLngSize)]
    IN [grid |-> IndexFeatures(keysOf, n, 1, <<>>),
        gridSize |-> gridSize,
        minLat |-> minLat, maxLat |-> maxLat,
        minLng |-> minLng, maxLng |-> maxLng,
        cellLatSize |-> cellLatSize, cellLngSize |-> cellLngSize]

(***************************************************************************)
(* The query getVillageAtLatLng.  pt is <<lng, lat>>.                      *)
(***************************************************************************)
\* The quick bounds check against the overall box.
OutsideOverall(idx, pt) ==
    \/ JsLess(Num(pt[2]), idx.minLat)
    \/ JsGreater(Num(pt[2]), idx.maxLat)
    \/ JsLess(Num(pt[1]), idx.minLng)
    \/ JsGreater(Num(pt[1]), idx.maxLng)

\* key(validRow, validCol): a grid key, or NaN.
GridKey(idx, pt) ==
    LET row == MathFloor(JsDiv(JsSub(Num(pt[2]), idx.minLat), idx.cellLatSize))
        col == MathFloor(JsDiv(JsSub(Num(pt[1]), idx.minLng), idx.cellLngSize))
        validRow == MathMax(Num(0), MathMin(Num(idx.gridSize - 1), row))
        validCol == MathMax(Num(0), MathMin(Num(idx.gridSize - 1), col))
    IN IF IsNum(validRow) /\ IsNum(validCol)
       THEN Num(validRow.v * idx.gridSize + validCol.v)
       ELSE NaN

\* grid.get(gridKey) || []
CandidateIndices(idx, gridKey) ==
    IF IsNum(gridKey) /\ gridKey.v \in DOMAIN idx.grid
    THEN idx.grid[gridKey.v] ELSE <<>>

\* for (const index of candidateIndices) with the bounds quick-reject and
\* the exact test; the first feature that passes is returned.
RECURSIVE CandidateLoop(_, _, _, _)
CandidateLoop(fs, pt, cands, c) ==
    IF c > Len(cands) THEN Null
    ELSE LET feature == fs[cands[c] + 1] IN
         IF ~BoundsContains(GetBounds(feature), pt)
         THEN CandidateLoop(fs, pt, cands, c + 1)
         ELSE IF GeometryTest(pt, feature.geometry) THEN Num(cands[c])
         ELSE CandidateLoop(fs, pt, cands, c + 1)

\* A variant without the quick bounds check.
getVillageAtLatLng_NoFastPath(fs, idx, pt) ==
    LET gridKey == GridKey(idx, pt) IN
    [result |-> CandidateLoop(fs, pt, CandidateIndices(idx, gridKey), 1),
     read |-> gridKey]

\* The whole call: [result, key read from the grid (NotRead on the fast path)].
getVillageAtLatLng(fs, idx, pt) ==
    IF OutsideOverall(idx, pt) THEN [result |-> Null, read |-> NotRead]
    ELSE LET gridKey == GridKey(idx, pt) IN
         [result |-> CandidateLoop(fs, pt, CandidateIndices(idx, gridKey), 1),
          read |-> gridKey]

\* A variant that tests the first candidate of the cell only.
getVillageAtLatLngOfMap_FirstCandidate(fs, idx, pt) ==
    LET gridKey == GridKey(idx, pt) IN
    [result |-> CandidateLoop(fs, pt,
                              IF CandidateIndices(idx, gridKey) = <<>> THEN <<>>
                              ELSE <<CandidateIndices(idx, gridKey)[1]>>, 1),
     read |-> gridKey]

\* getVillageAtLatLng of RwandaMap.tsx: the same call over the same memo,
\* without the test against the overall box.
getVillageAtLatLngOfMap(fs, idx, pt) ==
    LET gridKey == GridKey(idx, pt) IN
    [result |-> CandidateLoop(fs, pt, CandidateIndices(idx, gridKey), 1),
     read |-> gridKey]

(***************************************************************************)
(* Strings.  A string is a sequence of characters; the alphabet holds what *)
(* normalize distinguishes: upper and lower case letters, the precomposed  *)
(* accented letters "e_acute" and "E_acute", the combining acute accent    *)
(* U+0301 (written "'"), a space, a tab, the separators "|" and ":", and   *)
(* the bullet of the parents label, "(bullet)".                            *)
(***************************************************************************)
EmptyString == <<>>
Unknown == <<"U", "n", "k", "n", "o", "w", "n">>

\* String.prototype.toLowerCase, one character.
LowerChar(c) ==
    CASE c = "A" -> "a" [] c = "B" -> "b" [] c = "C" -> "c" [] c = "E" -> "e"
      [] c = "K" -> "k"
      [] c = "R" -> "r" [] c = "U" -> "u" [] c = "V" -> "v" [] c = "X" -> "x"
      [] c = "Y" -> "y" [] c = "E_acute" -> "e_acute"
      [] OTHER -> c

\* String.prototype.normalize("NFKD"), one character: a precomposed letter
\* becomes the base letter followed by the combining mark.
DecomposeChar(c) == IF c = "e_acute" THEN <<"e", "'">> ELSE <<c>>

\* A character of the class [U+0300-U+036F].
IsCombiningMark(c) == c = "'"

\* A character of the class \s.
IsSpace(c) == c \in {" ", "\t"}

\* The concatenation of Op(c) for the characters c of str in order, computed
\* half by half.
RECURSIVE FlatMap(_, _)
FlatMap(Op(_), str) ==
    IF str = <<>> THEN <<>>
    ELSE IF Len(str) = 1 THEN Op(str[1])
    ELSE FlatMap(Op, SubSeq(str, 1, Len(str) \div 2))
           \o FlatMap(Op, SubSeq(str, Len(str) \div 2 + 1, Len(str)))

toLowerCase(str) == [i \in DOMAIN str |-> LowerChar(str[i])]

nfkd(str) == FlatMap(DecomposeChar, str)

\* .replace(/[U+0300-U+036F]/g, "")
stripMarks(str) == SelectSeq(str, LAMBDA c : ~IsCombiningMark(c))

\* .replace(/\s+/g, " "): every maximal run of white space becomes one
\* space.  The positions kept are those of the other characters and of the
\* last character of each run.
collapseSpaces(str) ==
    LET kept == SelectSeq([i \in DOMAIN str |-> i],
                          LAMBDA i : ~(/\ IsSpace(str[i])
                                       /\ i < Len(str)
                                       /\ IsSpace(str[i + 1])))
    IN [k \in DOMAIN kept |-> IF IsSpace(str[kept[k]]) THEN " " ELSE str[kept[k]]]

\* String.prototype.trim.
RECURSIVE trimStart(_)
trimStart(str) ==
    IF str # <<>> /\ IsSpace(Head(str)) THEN trimStart(Tail(str)) ELSE str

RECURSIVE trimEnd(_)
trimEnd(str) ==
    IF str # <<>> /\ IsSpace(str[Len(str)])
    THEN trimEnd(SubSeq(str, 1, Len(str) - 1)) ELSE str

trim(str) == trimEnd(trimStart(str))

normalize(str) == trim(collapseSpaces(stripMarks(nfkd(toLowerCase(str)))))

(***************************************************************************)
(* The search index (buildSearchIndexMap).                                 *)
(***************************************************************************)
Levels == <<"Province", "District", "Sector", "Cell", "Village">>

\* A property value is a string or null; a property that is absent reads
\* as undefined.
StringValue(chars) == [t |-> "string", s |-> chars]
Undefined == [t |-> "undefined"]

\* A variant without the "Unknown" sentinel.
getProp_NoSentinel(p, key) ==
    LET v == IF p # Null /\ key \in DOMAIN p THEN p[key] ELSE Undefined IN
    IF v = Null \/ v = Undefined THEN EmptyString ELSE v.s

\* getProp(p, key): p is null or a mapping from names to values.
getProp(p, key) ==
    LET v == IF p # Null /\ key \in DOMAIN p THEN p[key] ELSE Undefined IN
    IF v = Null \/ v = Undefined \/ v = StringValue(EmptyString)
    THEN Unknown ELSE v.s

\* A variant in which the Map outlives the call (a map hoisted out of the
\* function): a build starts from the entries of the previous one.
NewMap_Shared == [items |-> searchIndexMap, keys |-> mapKeys]

\* The Map under construction: [items: key -> SearchItem, keys: insertion order].
NewMap == [items |-> [k \in {} |-> Null], keys |-> <<>>]

\* A variant that keys an item by level and name alone.
ItemKey_NameOnly(level, clean, parentsKey) == <<level, ":">> \o normalize(clean)

\* The template `${level}:${normalize(clean)}|${normalize(parentsKey)}`.
ItemKey(level, clean, parentsKey) ==
    <<level, ":">> \o normalize(clean) \o <<"|">> \o normalize(parentsKey)

\* A variant that replaces an existing item instead of extending its list.
add_Overwrite(m, level, name, idx, parentsKey, parentsLabel) ==
    LET clean == trim(name)
        key == ItemKey(level, clean, parentsKey)
        item == [id |-> key, level |-> level, name |-> clean,
                 parentsLabel |-> parentsLabel,
                 searchText |-> normalize(clean \o <<" ">> \o parentsLabel),
                 indices |-> <<idx>>]
    IN IF clean = EmptyString THEN m
       ELSE [items |-> [k \in DOMAIN m.items \cup {key} |->
                          IF k = key THEN item ELSE m.items[k]],
             keys |-> IF key \in DOMAIN m.items THEN m.keys ELSE Append(m.keys, key)]

\* A variant whose item id leaves the parents out.
add_IdWithoutParents(m, level, name, idx, parentsKey, parentsLabel) ==
    LET clean == trim(name)
        key == ItemKey(level, clean, parentsKey)
        item == [id |-> <<level, ":">> \o normalize(clean),
                 level |-> level, name |-> clean,
                 parentsLabel |-> parentsLabel,
                 searchText |-> normalize(clean \o <<" ">> \o parentsLabel),
                 indices |-> <<idx>>]
    IN IF clean = EmptyString THEN m
       ELSE IF key \in DOMAIN m.items
       THEN [m EXCEPT !.items[key].indices = Append(@, idx)]
       ELSE [items |-> [k \in DOMAIN m.items \cup {key} |->
                          IF k = key THEN item ELSE m.items[k]],
             keys |-> Append(m.keys, key)]

\* add(level, name, idx, parentsKey, parentsLabel) applied to map m.
add(m, level, name, idx, parentsKey, parentsLabel) ==
    LET clean == trim(name)
        key == ItemKey(level, clean, parentsKey)
    IN IF clean = EmptyString THEN m
       ELSE IF key \in DOMAIN m.items
       THEN [m EXCEPT !.items[key].indices = Append(@, idx)]
       ELSE [items |-> [k \in DOMAIN m.items \cup {key} |->
                          IF k = key
                          THEN [id |-> key,
                                level |-> level,
                                name |-> clean,
                                parentsLabel |-> parentsLabel,
                                searchText |->
                                    normalize(clean \o <<" ">> \o parentsLabel),
                                indices |-> <<idx>>]
                          ELSE m.items[k]],
             keys |-> Append(m.keys, key)]

Bar == <<"|">>
Dot == <<" ", "(bullet)", " ">>

\* The body of features.forEach((f, idx) => ...): the five add calls.
addFeature(m, f, idx) ==
    LET p == f.properties
        country == getProp(p, "NAME_0")
        province == getProp(p, "NAME_1")
        district == getProp(p, "NAME_2")
        sector == getProp(p, "NAME_3")
        cell == getProp(p, "NAME_4")
        m1 == add(m, "Province", province, idx, country, country)
        m2 == add(m1, "District", district, idx,
                  province \o Bar \o country, province \o Dot \o country)
        m3 == add(m2, "Sector", sector, idx,
                  province \o Bar \o district, province \o Dot \o district)
        m4 == add(m3, "Cell", cell, idx,
                  province \o Bar \o district \o Bar \o sector,
                  province \o Dot \o district \o Dot \o sector)
    IN add(m4, "Village", getProp(p, "NAME_5"), idx,
           province \o Bar \o district \o Bar \o sector \o Bar \o cell,
           province \o Dot \o district \o Dot \o sector \o Dot \o cell)

\* features.forEach: the callback has run for feature i - 1 before it runs
\* for feature i (the test on the keys makes the evaluation follow that order).
RECURSIVE forEachFeature(_, _, _)
forEachFeature(m, fs, i) ==
    IF i > Len(fs) THEN m
    ELSE LET next == addFeature(m, fs[i], i - 1) IN
         IF Len(next.keys) >= 0 THEN forEachFeature(next, fs, i + 1) ELSE m

buildSearchIndexMap(fs) == forEachFeature(NewMap, fs, 1)

\* Array.from(map.values()): the items in insertion order of their keys.
MapValues(m) == [i \in DOMAIN m.keys |-> m.items[m.keys[i]]]

(***************************************************************************)
(* The feature arrays of the spatial specification.                        *)
(***************************************************************************)
Square(x0, y0, x1, y1) ==
    <<(<<x0, y0>>), (<<x1, y0>>), (<<x1, y1>>), (<<x0, y1>>), (<<x0, y0>>)>>

NoProperties == [k \in {} |-> ""]

Geometries ==
    { Polygon(<<Square(0, 0, 2, 2)>>),
      Polygon(<<Square(2, 2, 4, 4)>>),
      \* a hole, and two degenerate hole rings (no point, one point)
      Polygon(<<Square(0, 0, 4, 4), Square(1, 1, 3, 3), <<>>, <<(<<2, 2>>)>> >>),
      \* a polygon without rings, a square and a triangle
      MultiPolygon(<< <<>>,
                      <<Square(0, 2, 2, 4)>>,
                      <<(<<(<<2, 0>>), (<<4, 0>>), (<<4, 2>>), (<<2, 0>>)>>)>> >>),
      Polygon(<< >>),                                     \* empty coordinates
      Polygon(<< <<(<<0, 0>>), (<<4, 4>>)>> >>),          \* a 2-point ring
      Polygon(<< <<(<<2, 2>>)>> >>),                      \* a 1-point ring
      Polygon(<< <<(<<1, 0>>), (<<1, 4>>), (<<1, 2>>)>> >>), \* zero width
      LineString(<<(<<0, 0>>), (<<4, 4>>)>>) }

GeoFeatures == {[geometry |-> g, properties |-> NoProperties] : g \in Geometries}

SeqsUpTo(S, n) == UNION {[1..k -> S] : k \in 0..n}

QueryPoints == {<<x, y>> : x \in (-1)..(MaxCoord + 1), y \in (-1)..(MaxCoord + 1)}

NoMap == [k \in {} |-> Null]

\* The state of LocationSearch on its first render: the search box is empty
\* and every memo has its value for the empty query.
QueryIdle ==
    /\ query = EmptyString
    /\ debouncedQuery = EmptyString
    /\ filterLevel = Null
    /\ normalizedSearchQuery = EmptyString
    /\ typePrefixSuggestions = <<>>
    /\ results = <<>>
    /\ groupedResults = [nameMatches |-> <<>>, parentOnlyMatches |-> <<>>]

\* A URL parameter that is not in the query string (params.get gives null).
Absent == [t |-> "absent"]

\* The parameters the components keep in the URL.
UrlKeys == {"selected", "highlight", "search"}

\* No component is mounted: no parameter, no timer, no call.
EffectsIdle ==
    /\ location = [k \in UrlKeys |-> Absent]
    /\ paramValue = EmptyString
    /\ defaultValue = EmptyString
    /\ debounceMs = 0
    /\ timers = <<>>
    /\ selectedId = EmptyString
    /\ mapReady = FALSE
    /\ hasInitialZoomed = FALSE
    /\ zooms = <<>>
    /\ clearedIds = {}

\* No coordinate string has been parsed yet.
CoordsIdle ==
    /\ input = EmptyString
    /\ parsed = Null
    /\ latLng = Null

(***************************************************************************)
(* The spatial specification: construct the index, then query it.          *)
(***************************************************************************)
Init ==
    /\ features \in SeqsUpTo(GeoFeatures, MaxFeatures)
    /\ pc = "init"
    /\ spatialGridIndex = NoIndex
    /\ point = Null
    /\ located = Null
    /\ cellRead = NotRead
    /\ searchIndexMap = NoMap
    /\ mapKeys = <<>>
    /\ searchIndex = <<>>
    /\ lookupKey = EmptyString
    /\ highlightedRegion = Null
    /\ QueryIdle
    /\ CoordsIdle
    /\ EffectsIdle

\* The spatialGridIndex memo runs on the first render; it throws when a
\* feature's bounds have no corners.
Build ==
    /\ pc = "init"
    /\ IF BuildThrows(features)
       THEN /\ pc' = "fault"
            /\ UNCHANGED spatialGridIndex
       ELSE /\ pc' = "built"
            /\ spatialGridIndex' = BuildSpatialGridIndex(features)
    /\ UNCHANGED <<features, point, located, cellRead>>
    /\ UNCHANGED searchVars
    /\ UNCHANGED queryVars
    /\ UNCHANGED coordVars
    /\ UNCHANGED effectVars

\* A call of getVillageAtLatLng with latlng = pt.
Locate(pt) ==
    /\ pc = "built"
    /\ LET r == getVillageAtLatLng(features, spatialGridIndex, pt) IN
        /\ located' = r.result
        /\ cellRead' = r.read
    /\ point' = pt
    /\ pc' = "located"
    /\ UNCHANGED <<features, spatialGridIndex>>
    /\ UNCHANGED searchVars
    /\ UNCHANGED queryVars
    /\ UNCHANGED coordVars
    /\ UNCHANGED effectVars

\* The caller consumes the result; the hook keeps nothing of the call.
Return ==
    /\ pc = "located"
    /\ pc' = "built"
    /\ point' = Null
    /\ located' = Null
    /\ cellRead' = NotRead
    /\ UNCHANGED <<features, spatialGridIndex>>
    /\ UNCHANGED searchVars
    /\ UNCHANGED queryVars
    /\ UNCHANGED coordVars
    /\ UNCHANGED effectVars

Next ==
    \/ Build
    \/ \E pt \in QueryPoints : Locate(pt)
    \/ Return

Spec == Init /\ [][Next]_vars

(***************************************************************************)
(* The search specification: RwandaMap builds its searchIndexMap,          *)
(* LocationSearch builds its own searchIndex from the same features, and   *)
(* the highlight URL value is resolved against the map.                    *)
(***************************************************************************)
Props(n0, n1, n2, n3, n4, n5) ==
    [NAME_0 |-> StringValue(n0), NAME_1 |-> StringValue(n1),
     NAME_2 |-> StringValue(n2), NAME_3 |-> StringValue(n3),
     NAME_4 |-> StringValue(n4), NAME_5 |-> StringValue(n5)]

Rw == <<"R", "w">>
Ug == <<"U", "g">>
East == <<"E">>
Ki == <<"K", "i">>
V1 == <<"V", "1">>
V2 == <<"V", "2">>

PropertySets ==
    { Props(Rw, East, <<"X">>, <<"A">>, Ki, V1),
      Props(Rw, East, <<"X">>, <<"B">>, Ki, V1),      \* same cell name, other sector
      Props(Rw, East, <<"X">>, <<"A">>, Ki, V2),      \* a second village of the cell
      Props(Ug, East, <<"X">>, <<"A">>, Ki, V1),      \* another country
      Props(Rw, <<"e">>, <<"X">>, <<"A">>, Ki, V1),   \* province in lower case
      Props(Rw, East, <<"X">>, <<"A">>, <<" ">>, EmptyString),
      Null,                                           \* properties: null
      [NAME_0 |-> StringValue(Rw), NAME_1 |-> StringValue(<<"E_acute">>),
       NAME_2 |-> StringValue(<<"X">>), NAME_3 |-> Null,
       NAME_4 |-> StringValue(<<" ", "K", " ", "\t", "i", "\t">>)],
      Props(Rw, <<"E", "|", "Y">>, <<"X">>, <<"A">>, Ki, V1),
      Props(Rw, East, <<"Y", "|", "X">>, <<"A">>, Ki, V1) }

NamedFeatures ==
    {[geometry |-> Polygon(<<Square(0, 0, 2, 2)>>), properties |-> p] :
        p \in PropertySets}

\* The values the highlight URL parameter takes: every key some feature of
\* the model produces, the empty string, and a string that is no key.
HighlightIds ==
    UNION {DOMAIN buildSearchIndexMap(<<f>>).items : f \in NamedFeatures}
        \cup {EmptyString, <<"Cell", ":", "x">>}

InitSearch ==
    /\ features \in SeqsUpTo(NamedFeatures, MaxFeatures)
    /\ pc = "init"
    /\ spatialGridIndex = NoIndex
    /\ point = Null
    /\ located = Null
    /\ cellRead = NotRead
    /\ searchIndexMap = NoMap
    /\ mapKeys = <<>>
    /\ searchIndex = <<>>
    /\ lookupKey = EmptyString
    /\ highlightedRegion = Null
    /\ QueryIdle
    /\ CoordsIdle
    /\ EffectsIdle

\* RwandaMap: const searchIndexMap = useMemo(() => buildSearchIndexMap(features)).
BuildSearchIndexMap ==
    /\ pc = "init"
    /\ LET m == buildSearchIndexMap(features) IN
        /\ searchIndexMap' = m.items
        /\ mapKeys' = m.keys
    /\ pc' = "mapbuilt"
    /\ UNCHANGED <<features, searchIndex, lookupKey, highlightedRegion>>
    /\ UNCHANGED spatialVars
    /\ UNCHANGED queryVars
    /\ UNCHANGED coordVars
    /\ UNCHANGED effectVars

\* LocationSearch (a child of RwandaMap): the searchIndex memo.
BuildSearchIndex ==
    /\ pc = "mapbuilt"
    /\ searchIndex' = MapValues(buildSearchIndexMap(features))
    /\ pc' = "built"
    /\ UNCHANGED <<features, searchIndexMap, mapKeys, lookupKey, highlightedRegion>>
    /\ UNCHANGED spatialVars
    /\ UNCHANGED queryVars
    /\ UNCHANGED coordVars
    /\ UNCHANGED effectVars

\* The highlightedRegion memo for a highlightedId.
HighlightedRegionOf(items, highlightedId) ==
    IF highlightedId = EmptyString THEN Null
    ELSE IF highlightedId \in DOMAIN items THEN items[highlightedId]
    ELSE Null

\* setHighlightedId(id) and the re-render that recomputes highlightedRegion.
Highlight(id) ==
    /\ pc = "built"
    /\ lookupKey' = id
    /\ highlightedRegion' = HighlightedRegionOf(searchIndexMap, id)
    /\ pc' = "looked"
    /\ UNCHANGED <<features, searchIndexMap, mapKeys, searchIndex>>
    /\ UNCHANGED spatialVars
    /\ UNCHANGED queryVars
    /\ UNCHANGED coordVars
    /\ UNCHANGED effectVars

\* setHighlightedId("") (the region card is closed).
ClearHighlight ==
    /\ pc = "looked"
    /\ lookupKey' = EmptyString
    /\ highlightedRegion' = HighlightedRegionOf(searchIndexMap, EmptyString)
    /\ pc' = "built"
    /\ UNCHANGED <<features, searchIndexMap, mapKeys, searchIndex>>
    /\ UNCHANGED spatialVars
    /\ UNCHANGED queryVars
    /\ UNCHANGED coordVars
    /\ UNCHANGED effectVars

NextSearch ==
    \/ BuildSearchIndexMap
    \/ BuildSearchIndex
    \/ \E id \in HighlightIds : Highlight(id)
    \/ ClearHighlight

SpecSearch == InitSearch /\ [][NextSearch]_vars

(***************************************************************************)
(* LocationSearch: the query language of the search box.                   *)
(***************************************************************************)
Colon == <<":">>
KwProvince == <<"p", "r", "o", "v", "i", "n", "c", "e">>
KwDistrict == <<"d", "i", "s", "t", "r", "i", "c", "t">>
KwSector == <<"s", "e", "c", "t", "o", "r">>
KwCell == <<"c", "e", "l", "l">>
KwVillage == <<"v", "i", "l", "l", "a", "g", "e">>
KwConstructor == <<"c", "o", "n", "s", "t", "r", "u", "c", "t", "o", "r">>
KwProto == <<"_", "_", "p", "r", "o", "t", "o", "_", "_">>

\* A SearchLevel as a value of a variable that may also hold null.
LevelValue(level) == [t |-> "level", v |-> level]

\* levelMap[key].  levelMap is an object literal, so a key that is not one of
\* its five own properties is looked up on Object.prototype: "constructor"
\* reads the function Object and "__proto__" reads Object.prototype itself;
\* every other lower-case key reads undefined.
levelMap(key) ==
    CASE key = KwProvince -> LevelValue("Province")
      [] key = KwDistrict -> LevelValue("District")
      [] key = KwSector -> LevelValue("Sector")
      [] key = KwCell -> LevelValue("Cell")
      [] key = KwVillage -> LevelValue("Village")
      [] key = KwConstructor -> [t |-> "function", name |-> "Object"]
      [] key = KwProto -> [t |-> "object", name |-> "Object.prototype"]
      [] OTHER -> Undefined

\* Object.keys(levelMap): the own keys in insertion order.
allTypePrefixes == <<KwProvince, KwDistrict, KwSector, KwCell, KwVillage>>

\* String.prototype.startsWith and String.prototype.includes.
startsWith(str, prefix) ==
    Len(prefix) <= Len(str) /\ SubSeq(str, 1, Len(prefix)) = prefix

includes(str, sub) ==
    \E i \in 0..(Len(str) - Len(sub)) : SubSeq(str, i + 1, i + Len(sub)) = sub

\* str.split(/\s+/): the pieces between the maximal runs of white space; a
\* run at either end of the string leaves an empty piece there.
RECURSIVE SplitLoop(_, _, _)
SplitLoop(str, piece, pieces) ==
    IF str = <<>> THEN Append(pieces, piece)
    ELSE IF IsSpace(Head(str))
    THEN SplitLoop(trimStart(Tail(str)), <<>>, Append(pieces, piece))
    ELSE SplitLoop(Tail(str), Append(piece, Head(str)), pieces)

split(str) == SplitLoop(str, <<>>, <<>>)

\* str.split(/\s+/, limit): the first limit pieces only.
splitLimit(str, limit) ==
    LET pieces == split(str) IN
    SubSeq(pieces, 1, IF Len(pieces) < limit THEN Len(pieces) ELSE limit)

\* trimmed.startsWith(":")
hasTypePrefix(q) == startsWith(trim(q), Colon)

\* trimmed.slice(1).split(/\s+/, 2)[0]?.toLowerCase(), or null.
typePrefix(q) ==
    IF hasTypePrefix(q)
    THEN StringValue(toLowerCase(splitLimit(Tail(trim(q)), 2)[1]))
    ELSE Null

\* trimmed.slice(1).split(/\s+/, 2)[1] || "", or the query itself.
searchQuery(q) ==
    IF hasTypePrefix(q)
    THEN LET pieces == splitLimit(Tail(trim(q)), 2) IN
         IF Len(pieces) >= 2 THEN pieces[2] ELSE EmptyString
    ELSE q

\* typePrefix && levelMap[typePrefix]
isValidPrefix(tp) ==
    tp # Null /\ tp.s # EmptyString /\ levelMap(tp.s) # Undefined

\* The memo { filterLevel, normalizedSearchQuery } of a debounced query.
ParseQuery(q) ==
    LET tp == typePrefix(q) IN
    [filterLevel |-> IF isValidPrefix(tp) THEN levelMap(tp.s) ELSE Null,
     normalizedSearchQuery |-> normalize(searchQuery(q))]

\* The typePrefixSuggestions memo of a query.
Suggestions(q) ==
    LET tp == typePrefix(q) IN
    IF hasTypePrefix(q) /\ tp.s # EmptyString /\ ~isValidPrefix(tp)
    THEN SelectSeq(allTypePrefixes,
                   LAMBDA prefix : startsWith(toLowerCase(prefix), toLowerCase(tp.s)))
    ELSE IF trim(q) = Colon \/ (hasTypePrefix(q) /\ tp.s = EmptyString)
    THEN allTypePrefixes
    ELSE <<>>

(***************************************************************************)
(* LocationSearch: the result list and its grouping.                       *)
(***************************************************************************)
MaxResults == 50

\* The table order of the comparator.
order(level) ==
    CASE level = "Province" -> 0
      [] level = "District" -> 1
      [] level = "Sector" -> 2
      [] level = "Cell" -> 3
      [] OTHER -> 4

\* A variant whose comparator leaves the number of features out.
compare_NoCount(a, b, nq) ==
    LET aStarts == IF startsWith(normalize(a.name), nq) THEN 0 ELSE 1
        bStarts == IF startsWith(normalize(b.name), nq) THEN 0 ELSE 1
    IN IF Len(nq) >= 2 /\ aStarts # bStarts THEN aStarts - bStarts
       ELSE IF a.level # b.level THEN order(a.level) - order(b.level)
       ELSE 0

\* The comparator of the sort: negative when a goes before b.
compare(a, b, nq) ==
    LET aStarts == IF startsWith(normalize(a.name), nq) THEN 0 ELSE 1
        bStarts == IF startsWith(normalize(b.name), nq) THEN 0 ELSE 1
    IN IF Len(nq) >= 2 /\ aStarts # bStarts THEN aStarts - bStarts
       ELSE IF a.level # b.level THEN order(a.level) - order(b.level)
       ELSE Len(a.indices) - Len(b.indices)

\* Array.prototype.sort is stable: item number j of the array goes before
\* item number i when it compares less, or compares equal and was before it.
\* The place of an item in the sorted array is one more than the number of
\* the items that go before it.
sort(items, nq) ==
    LET places ==
            {<<1 + Cardinality({j \in DOMAIN items :
                                 \/ compare(items[j], items[i], nq) < 0
                                 \/ /\ compare(items[j], items[i], nq) = 0
                                    /\ j < i}), i>> : i \in DOMAIN items}
    IN [k \in DOMAIN items |-> items[(CHOOSE p \in places : p[1] = k)[2]]]

\* Array.prototype.slice(0, n).
slice(items, n) == SubSeq(items, 1, IF Len(items) < n THEN Len(items) ELSE n)

\* A variant that ignores the level filter.
FilterByLevel_Off(items, fl) == items

\* filtered.filter((item) => item.level === filterLevel)
FilterByLevel(items, fl) ==
    IF fl # Null THEN SelectSeq(items, LAMBDA item : LevelValue(item.level) = fl)
    ELSE items

\* A variant that looks for the query in the name alone.
FilterByText_NameOnly(items, nq) ==
    IF Len(nq) >= 2
    THEN SelectSeq(items, LAMBDA item : includes(normalize(item.name), nq))
    ELSE items

\* filtered.filter((item) => item.searchText.includes(normalizedSearchQuery))
FilterByText(items, nq) ==
    IF Len(nq) >= 2 THEN SelectSeq(items, LAMBDA item : includes(item.searchText, nq))
    ELSE items

\* A variant without the test for a query that is too short.
Results_NoMinimum(index, nq, fl) ==
    slice(sort(FilterByText(FilterByLevel(index, fl), nq), nq), MaxResults)

\* A variant that truncates the list before it sorts it.
Results_SliceBeforeSort(index, nq, fl) ==
    IF Len(nq) < 2 /\ fl = Null THEN <<>>
    ELSE sort(slice(FilterByText(FilterByLevel(index, fl), nq), MaxResults), nq)

\* The results memo.
Results(index, nq, fl) ==
    IF Len(nq) < 2 /\ fl = Null THEN <<>>
    ELSE slice(sort(FilterByText(FilterByLevel(index, fl), nq), nq), MaxResults)

\* The test of the grouping loop: the item matched by its parents alone.
isParentsOnlyMatch(item, nq) ==
    /\ ~includes(normalize(item.name), nq)
    /\ includes(normalize(item.parentsLabel), nq)

\* The groupedResults memo.
GroupedResults(res, nq) ==
    IF Len(nq) < 2
    THEN [nameMatches |-> res, parentOnlyMatches |-> <<>>]
    ELSE [nameMatches |-> SelectSeq(res, LAMBDA item : ~isParentsOnlyMatch(item, nq)),
          parentOnlyMatches |-> SelectSeq(res, LAMBDA item : isParentsOnlyMatch(item, nq))]

(***************************************************************************)
(* The query specification: LocationSearch builds its index, the user      *)
(* edits the search box, and 300 ms after the last edit the debounced      *)
(* query follows and the memos of the result list are recomputed.          *)
(***************************************************************************)
Kigali == <<"K", "i", "g", "a", "l", "i">>

\* A record without NAME_5: a Cell-level feature.
CellProps(n0, n1, n2, n3, n4) ==
    [NAME_0 |-> StringValue(n0), NAME_1 |-> StringValue(n1),
     NAME_2 |-> StringValue(n2), NAME_3 |-> StringValue(n3),
     NAME_4 |-> StringValue(n4)]

KigaliA == CellProps(Rw, East, <<"X">>, <<"A">>, Kigali)
KigaliB == CellProps(Rw, East, <<"X">>, <<"B">>, Kigali)

QueryPropertySets ==
    { KigaliA,
      KigaliB,
      Props(Rw, East, <<"X">>, <<"A">>, Ki, V1),
      Props(Rw, Ki, <<"X">>, <<"A">>, <<"A", "k", "i">>, V1) }

Named(p) == [geometry |-> Polygon(<<Square(0, 0, 2, 2)>>), properties |-> p]

Digit(n) == <<"0", "1", "2", "3", "4", "5", "6", "7", "8", "9">>[n + 1]

\* An array whose index has more entries than a result list holds.  Every
\* name contains "ki", at its start when the number in the name is even;
\* features 2k-1 and 2k have the same province, and every other name is
\* the feature's own.
ManyNames ==
    [i \in 1..(MaxResults \div 5 + 3) |->
        LET name(letter, n) ==
                (IF n % 2 = 0 THEN Ki ELSE <<"A", "k", "i">>)
                    \o <<letter, Digit(n \div 10), Digit(n % 10)>>
        IN Named(Props(Rw, name("P", (i + 1) \div 2), name("D", i), name("S", i),
                       name("C", i), name("V", i)))]

QueryFeatureArrays ==
    SeqsUpTo({Named(p) : p \in QueryPropertySets}, MaxFeatures) \cup {ManyNames}

\* The texts typed into the search box.
QueryStrings ==
    { EmptyString,
      <<"k">>,
      <<" ", "K", "\t">>,
      Ki,
      <<"k", "i", "g", "a", "l", "i">>,
      <<"r", "w">>,
      <<"e", " ", "r", "w">>,
      Colon,
      Colon \o <<"c", "e">>,
      Colon \o <<"v">>,
      Colon \o KwCell,
      Colon \o <<"C", "e", "l", "l", " ", "k">>,
      Colon \o KwCell \o <<" ", " ">> \o Ki,
      Colon \o KwVillage \o <<" ", "k", "i", "g", "a", "l", "i">>,
      Colon \o KwProvince \o <<" ", "e", " ", "r", "w">>,
      Colon \o <<" ">> \o KwCell,
      Colon \o <<"x", "x", " ", "k", "i">>,
      Colon \o KwConstructor \o <<" ", "k", "i">> }

InitQuery ==
    /\ features \in QueryFeatureArrays
    /\ pc = "init"
    /\ spatialGridIndex = NoIndex
    /\ point = Null
    /\ located = Null
    /\ cellRead = NotRead
    /\ searchIndexMap = NoMap
    /\ mapKeys = <<>>
    /\ searchIndex = <<>>
    /\ lookupKey = EmptyString
    /\ highlightedRegion = Null
    /\ QueryIdle
    /\ CoordsIdle
    /\ EffectsIdle

\* onChange of the search box: setQuery(q).  The render that follows
\* recomputes typePrefixSuggestions and restarts the 300 ms timer.
SetQuery(q) ==
    /\ pc \in {"built", "typed", "searched"}
    /\ query' = q
    /\ typePrefixSuggestions' = Suggestions(q)
    /\ pc' = "typed"
    /\ UNCHANGED <<features, debouncedQuery, filterLevel, normalizedSearchQuery,
                   results, groupedResults>>
    /\ UNCHANGED spatialVars
    /\ UNCHANGED searchVars
    /\ UNCHANGED coordVars
    /\ UNCHANGED effectVars

\* The timer fires: setDebouncedQuery(query).  The render that follows
\* recomputes the parse of the query, the results and their grouping.
Debounce ==
    /\ pc = "typed"
    /\ debouncedQuery' = query
    /\ LET parse == ParseQuery(query)
           res == Results(searchIndex, parse.normalizedSearchQuery, parse.filterLevel)
       IN /\ filterLevel' = parse.filterLevel
          /\ normalizedSearchQuery' = parse.normalizedSearchQuery
          /\ results' = res
          /\ groupedResults' = GroupedResults(res, parse.normalizedSearchQuery)
    /\ pc' = "searched"
    /\ UNCHANGED <<features, query, typePrefixSuggestions>>
    /\ UNCHANGED spatialVars
    /\ UNCHANGED searchVars
    /\ UNCHANGED coordVars
    /\ UNCHANGED effectVars

NextQuery ==
    \/ BuildSearchIndexMap
    \/ BuildSearchIndex
    \/ \E q \in QueryStrings : SetQuery(q)
    \/ Debounce

SpecQuery == InitQuery /\ [][NextQuery]_vars

(***************************************************************************)
(* parseCoordinates (src/src/lib/coords.ts).  The degree sign is written   *)
(* "(deg)" and the apostrophe "(apos)" (the character "'" of this model's  *)
(* alphabet is the combining accent); a parsed number is an exact rational *)
(* Rat(n, d) in lowest terms.                                              *)
(***************************************************************************)
RECURSIVE Gcd(_, _)
Gcd(a, b) == IF b = 0 THEN a ELSE Gcd(b, a % b)

Abs(n) == IF n < 0 THEN -n ELSE n

\* The rational n/d (d > 0) in lowest terms.
Ratio(n, d) ==
    LET g == Gcd(Abs(n), d) IN IF g = 0 THEN Rat(0, 1) ELSE Rat(n \div g, d \div g)

RatAdd(a, b) == Ratio(a.n * b.d + b.n * a.d, a.d * b.d)
RatDivInt(a, k) == Ratio(a.n, a.d * k)
RatNeg(a) == Rat(-a.n, a.d)
RatLeq(a, b) == a.n * b.d <= b.n * a.d

IsDigit(c) == c \in {"0", "1", "2", "3", "4", "5", "6", "7", "8", "9"}
DigitValue(c) == CHOOSE v \in 0..9 : Digit(v) = c

RECURSIVE DigitsValue(_, _)
DigitsValue(digits, acc) ==
    IF digits = <<>> THEN acc ELSE DigitsValue(Tail(digits), 10 * acc + DigitValue(Head(digits)))

RECURSIVE Pow10(_)
Pow10(k) == IF k = 0 THEN 1 ELSE 10 * Pow10(k - 1)

\* The number of characters of a text after its first dot.
RECURSIVE FractionLength(_)
FractionLength(text) ==
    IF text = <<>> THEN 0
    ELSE IF Head(text) = "." THEN Len(text) - 1
    ELSE FractionLength(Tail(text))

\* parseFloat of a text of the shape -?\d+\.?\d* .
parseFloat(text) ==
    IF text # <<>> /\ Head(text) = "-"
    THEN RatNeg(Ratio(DigitsValue(SelectSeq(text, IsDigit), 0), Pow10(FractionLength(text))))
    ELSE Ratio(DigitsValue(SelectSeq(text, IsDigit), 0), Pow10(FractionLength(text)))

NoMatch == [ok |-> FALSE]

\* The character classes of the patterns; the patterns are matched with the
\* flag i, so a direction letter may be in lower case.
DigitClass == {"0", "1", "2", "3", "4", "5", "6", "7", "8", "9"}
SpaceClass == {" ", "\t"}
DirectionClass == {"N", "S", "E", "W", "n", "s", "e", "w"}

\* The atoms of a pattern: a class with the quantifier ?, none, + or *.
Optional(class) == [class |-> class, min |-> 0, many |-> FALSE]
One(class) == [class |-> class, min |-> 1, many |-> FALSE]
Plus(class) == [class |-> class, min |-> 1, many |-> TRUE]
Star(class) == [class |-> class, min |-> 0, many |-> TRUE]

\* The number of characters of str from position pos on that are in the
\* class: the longest run a greedy quantifier takes.
RECURSIVE Run(_, _, _)
Run(class, str, pos) ==
    IF pos <= Len(str) /\ str[pos] \in class THEN 1 + Run(class, str, pos + 1) ELSE 0

\* The positions after each atom of a pattern matched from position pos on,
\* up to the first atom that does not match.  Each quantifier of the
\* patterns below is followed by a class disjoint from its own (or by
\* \.?\d* after \d+, which takes the same text however \d+ ends), so every
\* quantifier takes its longest run.
RECURSIVE MatchFrom(_, _, _)
MatchFrom(pattern, str, pos) ==
    IF pattern = <<>> THEN <<>>
    ELSE IF Run(Head(pattern).class, str, pos) < Head(pattern).min THEN <<>>
    ELSE IF Head(pattern).many
         THEN <<pos + Run(Head(pattern).class, str, pos)>>
                \o MatchFrom(Tail(pattern), str, pos + Run(Head(pattern).class, str, pos))
    ELSE IF Run(Head(pattern).class, str, pos) = 0
         THEN <<pos>> \o MatchFrom(Tail(pattern), str, pos)
    ELSE <<pos + 1>> \o MatchFrom(Tail(pattern), str, pos + 1)

\* The text from the position after atom number before (from the start of
\* the match when before is 0) to the end of atom number last.
Group(str, start, ends, before, last) ==
    SubSeq(str, IF before = 0 THEN start ELSE ends[before], ends[last] - 1)

\* -?\d+\.?\d*
signedNumber == <<Optional({"-"}), Plus(DigitClass), Optional({"."}), Star(DigitClass)>>

\* ^(-?\d+\.?\d*)\s*[,;]\s*(-?\d+\.?\d*)$
decimalPattern ==
    signedNumber \o <<Star(SpaceClass), One({",", ";"}), Star(SpaceClass)>> \o signedNumber

\* trimmed.match(/^(-?\d+\.?\d*)\s*[,;]\s*(-?\d+\.?\d*)$/)
decimalMatch(str) ==
    LET ends == MatchFrom(decimalPattern, str, 1) IN
    IF Len(ends) = Len(decimalPattern) /\ ends[Len(decimalPattern)] = Len(str) + 1
    THEN [ok |-> TRUE, g1 |-> Group(str, 1, ends, 0, 4), g2 |-> Group(str, 1, ends, 7, 11)]
    ELSE NoMatch

\* String.prototype.toUpperCase of a direction letter.
UpperChar(c) ==
    CASE c = "n" -> "N" [] c = "s" -> "S" [] c = "e" -> "E" [] c = "w" -> "W"
      [] OTHER -> c

\* One half of a DMS pattern:
\*   (-?\d+)[(deg)\s]+(\d+)[(apos)\s]+(\d+\.?\d*)[\"\s]*([NSEW])
\* (without the class [\"\s]* when quotes is FALSE): ten atoms, the class
\* being Star({}) in the pattern without it.
dmsHalf(quotes) ==
    <<Optional({"-"}), Plus(DigitClass), Plus({"(deg)"} \cup SpaceClass),
      Plus(DigitClass), Plus({"(apos)"} \cup SpaceClass),
      Plus(DigitClass), Optional({"."}), Star(DigitClass),
      Star(IF quotes THEN {"\""} \cup SpaceClass ELSE {}), One(DirectionClass)>>

\* A DMS pattern: a half, \s+, a half.
dmsPattern(quotes) == dmsHalf(quotes) \o <<Plus(SpaceClass)>> \o dmsHalf(quotes)

\* The groups of the half whose first atom is atom number first + 1.
dmsGroups(str, start, ends, first) ==
    [deg |-> Group(str, start, ends, first, first + 2),
     min |-> Group(str, start, ends, first + 3, first + 4),
     sec |-> Group(str, start, ends, first + 5, first + 8),
     dir |-> str[ends[first + 10] - 1]]

\* A DMS pattern matched at position pos.
dmsMatchAt(str, pos, quotes) ==
    LET ends == MatchFrom(dmsPattern(quotes), str, pos) IN
    IF Len(ends) = Len(dmsPattern(quotes))
    THEN [ok |-> TRUE, start |-> pos,
          lat |-> dmsGroups(str, pos, ends, 0), lng |-> dmsGroups(str, pos, ends, 11)]
    ELSE NoMatch

\* trimmed.match(pattern) for a pattern without ^: the match at the
\* leftmost position that has one.
dmsMatch(str, quotes) ==
    LET matches == {m \in {dmsMatchAt(str, pos, quotes) : pos \in 1..Len(str)} : m.ok} IN
    IF matches = {} THEN NoMatch
    ELSE CHOOSE m \in matches : \A other \in matches : m.start <= other.start

\* deg + min / 60 + sec / 3600, negated for the direction S or W.
dmsValue(half, negativeDir) ==
    LET value == RatAdd(RatAdd(parseFloat(half.deg), RatDivInt(parseFloat(half.min), 60)),
                        RatDivInt(parseFloat(half.sec), 3600))
    IN IF UpperChar(half.dir) = negativeDir THEN RatNeg(value) ELSE value

\* A variant whose range test looks at the latitude alone.
InRange_LatitudeOnly(lat, lng) ==
    RatLeq(Rat(-90, 1), lat) /\ RatLeq(lat, Rat(90, 1))

\* lat >= -90 && lat <= 90 && lng >= -180 && lng <= 180
InRange(lat, lng) ==
    /\ RatLeq(Rat(-90, 1), lat) /\ RatLeq(lat, Rat(90, 1))
    /\ RatLeq(Rat(-180, 1), lng) /\ RatLeq(lng, Rat(180, 1))

\* The result of one of the two DMS attempts, or Null to go on.
dmsAttempt(str, quotes) ==
    LET m == dmsMatch(str, quotes)
        lat == dmsValue(m.lat, "S")
        lng == dmsValue(m.lng, "W")
    IN IF m.ok /\ InRange(lat, lng) THEN [lat |-> lat, lng |-> lng] ELSE Null

parseCoordinates(str) ==
    LET trimmed == trim(str)
        decimal == decimalMatch(trimmed)
        lat == parseFloat(decimal.g1)
        lng == parseFloat(decimal.g2)
    IN IF trimmed = EmptyString THEN Null
       ELSE IF decimal.ok /\ InRange(lat, lng) THEN [lat |-> lat, lng |-> lng]
       ELSE IF dmsAttempt(trimmed, TRUE) # Null THEN dmsAttempt(trimmed, TRUE)
       ELSE dmsAttempt(trimmed, FALSE)

(***************************************************************************)
(* The coordinate specification: parseCoordinates applied to an input.     *)
(* An input is built from pieces whose values are known: [text, value]     *)
(* with the value a rational, so that what the text means does not come    *)
(* from parsing it.                                                        *)
(***************************************************************************)
Piece(text, n, d) == [text |-> text, value |-> Ratio(n, d)]

DecimalLatitudes ==
    { Piece(<<"-", "9", "1">>, -91, 1),
      Piece(<<"-", "9", "0">>, -90, 1),
      Piece(<<"-", "1", ".", "9", "4">>, -194, 100),
      Piece(<<"0">>, 0, 1),
      Piece(<<"9", "0", ".">>, 90, 1),
      Piece(<<"9", "0", ".", "5">>, 905, 10) }

DecimalLongitudes ==
    { Piece(<<"-", "1", "8", "1">>, -181, 1),
      Piece(<<"-", "1", "8", "0">>, -180, 1),
      Piece(<<"0">>, 0, 1),
      Piece(<<"2", "9", ".", "8", "7">>, 2987, 100),
      Piece(<<"1", "8", "0">>, 180, 1),
      Piece(<<"1", "8", "0", ".", "1">>, 1801, 10) }

\* The separators of a decimal pair; the last one is not a separator of the
\* grammar.
DecimalSeparators == {<<",">>, <<",", " ">>, <<" ", ";", "\t">>, <<" ">>}

\* White space around an input.
Paddings == {<<>>, <<" ">>}

DecimalCases ==
    {[text |-> pad \o lat.text \o sep \o lng.text \o pad,
      grammar |-> sep # <<" ">>, lat |-> lat.value, lng |-> lng.value] :
        lat \in DecimalLatitudes, lng \in DecimalLongitudes,
        sep \in DecimalSeparators, pad \in Paddings}

Degrees(texts) == {Piece(t, DigitsValue(t, 0), 1) : t \in texts}

LatitudeDegrees == Degrees({<<"0">>, <<"1">>, <<"9", "0">>, <<"9", "1">>})
LongitudeDegrees == Degrees({<<"3", "0">>, <<"1", "8", "0">>, <<"1", "8", "1">>})
Minutes == {Piece(<<"0", "0">>, 0, 60), Piece(<<"5", "4">>, 54, 60)}
Seconds == {Piece(<<"0">>, 0, 3600), Piece(<<"3", "5", ".", "2">>, 352, 36000)}

\* The ways of writing one half: 1(deg)54(apos)35.2"S, without the quote,
\* with spaces after the signs, and with spaces instead of the signs.
DmsStyles == {"quoted", "bare", "spaced", "blanks"}

DmsText(deg, min, sec, dir, style) ==
    CASE style = "quoted" ->
            deg \o <<"(deg)">> \o min \o <<"(apos)">> \o sec \o <<"\"", dir>>
      [] style = "bare" ->
            deg \o <<"(deg)">> \o min \o <<"(apos)">> \o sec \o <<dir>>
      [] style = "spaced" ->
            deg \o <<"(deg)", " ">> \o min \o <<"(apos)", " ">> \o sec \o <<"\"", dir>>
      [] OTHER ->
            deg \o <<" ">> \o min \o <<" ">> \o sec \o <<" ", dir>>

DmsHalves(degrees, seconds, directions, negativeDir) ==
    {[deg |-> deg.text, min |-> min.text, sec |-> sec.text, dir |-> dir,
      value |-> LET v == RatAdd(RatAdd(deg.value, min.value), sec.value)
                IN IF dir \in negativeDir THEN RatNeg(v) ELSE v] :
        deg \in degrees, min \in Minutes, sec \in seconds, dir \in directions}

\* The texts between the two halves; the second is not one of the grammar.
DmsJoiners == {<<" ">>, <<",", " ">>}

DmsCases ==
    {[text |-> DmsText(lat.deg, lat.min, lat.sec, lat.dir, style) \o join
                 \o DmsText(lng.deg, lng.min, lng.sec, lng.dir, style),
      grammar |-> join = <<" ">>, lat |-> lat.value, lng |-> lng.value] :
        lat \in DmsHalves(LatitudeDegrees, Seconds, {"N", "s"}, {"s"}),
        lng \in DmsHalves(LongitudeDegrees, {Piece(<<"0">>, 0, 3600)}, {"E", "W"}, {"W"}),
        style \in DmsStyles, join \in DmsJoiners}

\* Inputs of no grammar, and a DMS pair inside other text.
OtherInputs ==
    { EmptyString,
      <<" ", "\t">>,
      <<"a", "b", "c">>,
      <<"1">>,
      <<"1", ",">>,
      <<",", "2">>,
      <<"-", ",", "2">>,
      <<"1", ".", "2", ".", "3", ",", "4">>,
      <<"1", "(deg)", "5", "4", "(apos)", "3", "5", ".", "2", "\"", "S">>,
      <<"a", "t", " ">> \o DmsText(<<"1">>, <<"5", "4">>, <<"0">>, "S", "quoted")
          \o <<" ">> \o DmsText(<<"3", "0">>, <<"0", "3">>, <<"0">>, "E", "quoted")
          \o <<" ", "!">>,
      DmsText(<<"9", "1">>, <<"0", "0">>, <<"0">>, "N", "quoted") \o <<" ">>
          \o DmsText(<<"3", "0">>, <<"0", "3">>, <<"0">>, "E", "quoted") \o <<" ">>
          \o DmsText(<<"1">>, <<"5", "4">>, <<"0">>, "S", "bare") \o <<" ">>
          \o DmsText(<<"3", "0">>, <<"0", "3">>, <<"0">>, "E", "bare") }

CoordinateStrings ==
    {c.text : c \in DecimalCases \cup DmsCases} \cup OtherInputs

InitCoords ==
    /\ features = <<>>
    /\ pc = "init"
    /\ spatialGridIndex = NoIndex
    /\ point = Null
    /\ located = Null
    /\ cellRead = NotRead
    /\ searchIndexMap = NoMap
    /\ mapKeys = <<>>
    /\ searchIndex = <<>>
    /\ lookupKey = EmptyString
    /\ highlightedRegion = Null
    /\ QueryIdle
    /\ input \in CoordinateStrings
    /\ parsed = Null
    /\ latLng = Null
    /\ EffectsIdle

\* A call parseCoordinates(input).
ParseCoordinates ==
    /\ pc = "init"
    /\ parsed' = parseCoordinates(input)
    /\ pc' = "parsed"
    /\ UNCHANGED <<features, input, latLng>>
    /\ UNCHANGED effectVars
    /\ UNCHANGED spatialVars
    /\ UNCHANGED searchVars
    /\ UNCHANGED queryVars

NextCoords == ParseCoordinates

SpecCoords == InitCoords /\ [][NextCoords]_vars

(***************************************************************************)
(* decimalToDMS and latLngToDMS (src/src/lib/dms.ts).  A decimal degree is *)
(* an exact rational; the formatted text uses "(deg)" and "(apos)" as the  *)
(* coordinate parser does.                                                 *)
(***************************************************************************)
\* Math.abs and Math.floor of a rational.
RatAbs(a) == Rat(Abs(a.n), a.d)
RatFloor(a) == a.n \div a.d

\* (a - k) * 60 for an integer k.
FractionTimes60(a, k) == Ratio((a.n - k * a.d) * 60, a.d)

\* Number.prototype.toString of a natural number.
RECURSIVE NumberToString(_)
NumberToString(k) ==
    IF k < 10 THEN <<Digit(k)>> ELSE NumberToString(k \div 10) \o <<Digit(k % 10)>>

\* A variant that does not pad.
padStart_None(str, n, fill) == str

\* String.prototype.padStart(n, fill) for a fill of one character.
padStart(str, n, fill) ==
    IF Len(str) < n THEN [i \in 1..(n - Len(str)) |-> fill] \o str ELSE str

\* Number.prototype.toFixed(1) of x >= 0: the n for which n / 10 is nearest
\* x (the larger one when two are as near), written with one decimal.
toFixed(x) ==
    NumberToString(((20 * x.n + x.d) \div (2 * x.d)) \div 10)
        \o <<".", Digit(((20 * x.n + x.d) \div (2 * x.d)) % 10)>>

\* A variant that takes every value for a northern or eastern one.
direction_Unsigned(decimalDegrees, isLatitude) ==
    IF isLatitude THEN "N" ELSE "E"

\* The hemisphere letter.
direction(decimalDegrees, isLatitude) ==
    IF isLatitude
    THEN IF decimalDegrees.n >= 0 THEN "N" ELSE "S"
    ELSE IF decimalDegrees.n >= 0 THEN "E" ELSE "W"

decimalToDMS(decimalDegrees, isLatitude) ==
    LET abs == RatAbs(decimalDegrees)
        degrees == RatFloor(abs)
        minutesFloat == FractionTimes60(abs, degrees)
        minutes == RatFloor(minutesFloat)
        seconds == FractionTimes60(minutesFloat, minutes)
    IN NumberToString(degrees) \o <<"(deg)">>
         \o padStart(NumberToString(minutes), 2, "0") \o <<"(apos)">>
         \o toFixed(seconds) \o <<"\"", direction(decimalDegrees, isLatitude)>>

latLngToDMS(lat, lng) == decimalToDMS(lat, TRUE) \o <<" ">> \o decimalToDMS(lng, FALSE)

(***************************************************************************)
(* The formatting specification: a pair of decimal degrees is formatted by *)
(* latLngToDMS and the text is parsed by parseCoordinates.                 *)
(***************************************************************************)
\* The angle of deg degrees, min minutes and centi hundredths of a second,
\* with the sign given.
Angle(sign, deg, min, centi) == Ratio(sign * ((deg * 60 + min) * 6000 + centi), 360000)

\* Hundredths of a second: none, below and at the first rounding tie, 35.20,
\* and the values around 59.95, from which the seconds round up to 60.0.
LatitudeCentis == {0, 4, 5, 3520, 5994, 5995, 5996, 5999}
LongitudeCentis == {0, 4490, 5996}

FormatLatitudes ==
    {Angle(sign, deg, min, centi) :
        sign \in {1, -1}, deg \in {0, 1, 89}, min \in {0, 59}, centi \in LatitudeCentis}
      \cup {Rat(90, 1), Rat(-90, 1)}

FormatLongitudes ==
    {Angle(sign, deg, min, centi) :
        sign \in {1, -1}, deg \in {0, 30, 179}, min \in {3, 59}, centi \in LongitudeCentis}
      \cup {Rat(180, 1), Rat(-180, 1)}

InitDms ==
    /\ features = <<>>
    /\ pc = "init"
    /\ spatialGridIndex = NoIndex
    /\ point = Null
    /\ located = Null
    /\ cellRead = NotRead
    /\ searchIndexMap = NoMap
    /\ mapKeys = <<>>
    /\ searchIndex = <<>>
    /\ lookupKey = EmptyString
    /\ highlightedRegion = Null
    /\ QueryIdle
    /\ input = EmptyString
    /\ parsed = Null
    /\ latLng \in [lat : FormatLatitudes, lng : FormatLongitudes]
    /\ EffectsIdle

\* A call latLngToDMS(lat, lng).
FormatDms ==
    /\ pc = "init"
    /\ input' = latLngToDMS(latLng.lat, latLng.lng)
    /\ pc' = "formatted"
    /\ UNCHANGED <<features, parsed, latLng>>
    /\ UNCHANGED effectVars
    /\ UNCHANGED spatialVars
    /\ UNCHANGED searchVars
    /\ UNCHANGED queryVars

\* A call parseCoordinates on the formatted text.
ParseFormatted ==
    /\ pc = "formatted"
    /\ parsed' = parseCoordinates(input)
    /\ pc' = "roundtrip"
    /\ UNCHANGED <<features, input, latLng>>
    /\ UNCHANGED effectVars
    /\ UNCHANGED spatialVars
    /\ UNCHANGED searchVars
    /\ UNCHANGED queryVars

NextDms == FormatDms \/ ParseFormatted

SpecDms == InitDms /\ [][NextDms]_vars

(***************************************************************************)
(* Properties of the spatial index.                                        *)
(***************************************************************************)
\* The lowest index of a feature whose geometry passes the exact test, found
\* by a scan of the whole array; Null when there is none.
LinearScan(fs, pt) ==
    LET hits == {i \in DOMAIN fs : GeometryTest(pt, fs[i].geometry)} IN
    IF hits = {} THEN Null ELSE Num(SetMin(hits) - 1)

\* C1: every call of getVillageAtLatLng returns the lowest-index feature
\* whose Polygon or MultiPolygon geometry contains the point under the
\* even-odd rule, and null only when no feature contains it: the lookup in
\* one grid cell agrees with a linear scan of all features.
C1_LocateAgreesWithLinearScan ==
    pc = "located" => located = LinearScan(features, point)

\* A call that finds the second feature of the array in a cell other than
\* cell 0, although the first feature is registered in that cell too.
C1_Witness ==
    /\ pc = "located"
    /\ located = Num(1)
    /\ IsNum(cellRead) /\ cellRead.v > 0
    /\ Len(CandidateIndices(spatialGridIndex, cellRead)) = 2

\* The point lies outside the box of all positions of all features (every
\* point does when there is no feature).
OutsideAllFeatures(fs, pt) ==
    LET ps == UNION {Positions(fs[i].geometry) : i \in DOMAIN fs} IN
    \/ ps = {}
    \/ pt[2] < SetMin({q[2] : q \in ps}) \/ pt[2] > SetMax({q[2] : q \in ps})
    \/ pt[1] < SetMin({q[1] : q \in ps}) \/ pt[1] > SetMax({q[1] : q \in ps})

\* C2: for a point outside the overall bounding box of all features the call
\* returns null without computing a grid key or reading a cell's list.
C2_OutsideBoxRejectedUnread ==
    (pc = "located" /\ OutsideAllFeatures(features, point))
        => (located = Null /\ cellRead = NotRead)

\* A call with a point outside the box of a non-empty feature array.
C2_Witness ==
    /\ pc = "located"
    /\ Len(features) > 0
    /\ OutsideAllFeatures(features, point)
    /\ located = Null

\* C3: with an empty feature array the construction does not throw and
\* every call returns null.
C3_EmptyIndexFindsNothing ==
    Len(features) = 0 =>
        /\ pc # "fault"
        /\ pc # "init" => spatialGridIndex # NoIndex
        /\ pc = "located" => located = Null

\* A call answered by the index of an empty feature array.
C3_Witness == Len(features) = 0 /\ pc = "located" /\ point = <<0, 0>>

\* Containment as the data model states it: inside ring 0 and inside none of
\* the rings 1..k; for a MultiPolygon, in at least one of its polygons.
InPolygon(pt, rings) ==
    /\ Len(rings) > 0
    /\ isPointInRing(pt, rings[1])
    /\ \A k \in 2..Len(rings) : ~isPointInRing(pt, rings[k])

Contains(g, pt) ==
    \/ g.type = "Polygon" /\ InPolygon(pt, g.coordinates)
    \/ /\ g.type = "MultiPolygon"
       /\ \E k \in DOMAIN g.coordinates : InPolygon(pt, g.coordinates[k])

\* C4: a polygon contains a point iff its exterior ring does and none of its
\* hole rings does; a multi-polygon contains it iff one of its polygons
\* does; a polygon without rings contains nothing.  The feature a call
\* returns contains the point in this sense, no earlier feature does, and
\* null is returned only when no feature does.
C4_ContainmentIsExteriorMinusHoles ==
    pc = "located" =>
        /\ IsNum(located) =>
            /\ Contains(features[located.v + 1].geometry, point)
            /\ \A i \in 1..located.v : ~Contains(features[i].geometry, point)
        /\ located = Null =>
            \A i \in DOMAIN features : ~Contains(features[i].geometry, point)

\* A call with a point inside the exterior ring and inside the hole of a
\* feature, which is therefore not returned.
C4_Witness ==
    /\ pc = "located"
    /\ \E i \in DOMAIN features :
        LET g == features[i].geometry IN
        /\ g.type = "Polygon" /\ Len(g.coordinates) >= 2
        /\ isPointInRing(point, g.coordinates[1])
        /\ isPointInRing(point, g.coordinates[2])
        /\ located # Num(i - 1)

\* The rings of a geometry (none for other geometry types).
Rings(g) ==
    CASE g.type = "Polygon" -> SeqRange(g.coordinates)
      [] g.type = "MultiPolygon" ->
            UNION {SeqRange(poly) : poly \in SeqRange(g.coordinates)}
      [] OTHER -> {}

\* C5: degenerate geometry never causes a fault: a ring of 0, 1 or 2 points
\* contains no point, and a feature whose coordinate list is empty can be
\* indexed and queried and is never returned.
C5_DegenerateGeometryNeverFaults ==
    /\ pc # "fault"
    /\ pc = "located" =>
        /\ \A i \in DOMAIN features :
             \A ring \in Rings(features[i].geometry) :
                Len(ring) <= 2 => ~isPointInRing(point, ring)
        /\ IsNum(located) => Len(features[located.v + 1].geometry.coordinates) > 0

(***************************************************************************)
(* Properties of the search index.                                         *)
(***************************************************************************)
SearchBuilt == pc \in {"mapbuilt", "built", "looked"}

FeatureIndices == 0..(Len(features) - 1)
LevelNumbers == 1..5

\* The property a level's name is read from: NAME_1 .. NAME_5.
NameKey(l) == <<"NAME_1", "NAME_2", "NAME_3", "NAME_4", "NAME_5">>[l]

\* The name of feature i (0-based) at level l, as getProp reads it.
LevelName(i, l) == getProp(features[i + 1].properties, NameKey(l))

\* The ancestor names of feature i above level l, country first.
AncestorChain(i, l) ==
    LET p == features[i + 1].properties IN
    SubSeq(<<getProp(p, "NAME_0"), getProp(p, "NAME_1"), getProp(p, "NAME_2"),
             getProp(p, "NAME_3"), getProp(p, "NAME_4")>>, 1, l)

\* The parentsKey argument of the add call of level l for feature i.
ParentsKey(i, l) ==
    LET p == features[i + 1].properties
        country == getProp(p, "NAME_0")
        province == getProp(p, "NAME_1")
        district == getProp(p, "NAME_2")
        sector == getProp(p, "NAME_3")
        cell == getProp(p, "NAME_4")
    IN CASE l = 1 -> country
         [] l = 2 -> province \o Bar \o country
         [] l = 3 -> province \o Bar \o district
         [] l = 4 -> province \o Bar \o district \o Bar \o sector
         [] l = 5 -> province \o Bar \o district \o Bar \o sector \o Bar \o cell

\* The level is skipped for feature i: its name is empty after trimming.
Skipped(i, l) == trim(LevelName(i, l)) = EmptyString

\* The keys of the entries of level l whose index list holds i.
EntriesWith(i, l) ==
    {k \in DOMAIN searchIndexMap :
        /\ searchIndexMap[k].level = Levels[l]
        /\ i \in SeqRange(searchIndexMap[k].indices)}

\* Features i and j are in two distinct entries of level l, and neither
\* entry lists the other feature.
InDistinctEntries(i, j, l) ==
    /\ EntriesWith(i, l) # {}
    /\ EntriesWith(j, l) # {}
    /\ EntriesWith(i, l) \cap EntriesWith(j, l) = {}

\* The ancestor names of feature i above level l, each normalized.
NormalizedChain(i, l) ==
    [n \in DOMAIN AncestorChain(i, l) |-> normalize(AncestorChain(i, l)[n])]

\* C6 as stated: two features with the same name at a level and ancestor
\* chains that differ in any name from the country down to the immediate
\* parent (names compared after normalization) are always in two distinct
\* entries of that level, neither listing the other feature.
C6_DistinctAncestorsDistinctEntries ==
    SearchBuilt =>
        \A i, j \in FeatureIndices : \A l \in LevelNumbers :
            (/\ ~Skipped(i, l)
             /\ LevelName(i, l) = LevelName(j, l)
             /\ NormalizedChain(i, l) # NormalizedChain(j, l))
                => InDistinctEntries(i, j, l)

\* C6 as amended: two features with the same name at a level whose parents
\* keys for that level differ after normalization are always in two
\* distinct entries of that level, neither listing the other feature.
C6_DistinctParentsKeyDistinctEntries ==
    SearchBuilt =>
        \A i, j \in FeatureIndices : \A l \in LevelNumbers :
            (/\ ~Skipped(i, l)
             /\ LevelName(i, l) = LevelName(j, l)
             /\ normalize(ParentsKey(i, l)) # normalize(ParentsKey(j, l)))
                => InDistinctEntries(i, j, l)

\* Two features with the same cell name under different sectors, kept in
\* two Cell entries of one index each.
C6_Witness ==
    /\ SearchBuilt
    /\ Len(features) = 2
    /\ LevelName(0, 4) = LevelName(1, 4)
    /\ LevelName(0, 3) # LevelName(1, 3)
    /\ \E k0 \in EntriesWith(0, 4) : \E k1 \in EntriesWith(1, 4) :
        /\ k0 # k1
        /\ searchIndexMap[k0].indices = <<0>>
        /\ searchIndexMap[k1].indices = <<1>>

\* The composite key of feature i at level l.
KeyAt(i, l) == ItemKey(Levels[l], trim(LevelName(i, l)), ParentsKey(i, l))

LevelNumber(level) == CHOOSE l \in LevelNumbers : Levels[l] = level

StrictlyAscending(seq) == \A a, b \in DOMAIN seq : a < b => seq[a] < seq[b]

\* C7: the index list of an entry holds exactly the features whose composite
\* key is the entry's key, in feature order (the first such feature created
\* the entry, the later ones were appended); so every list is non-empty,
\* strictly ascending, without duplicates, and within 0..n-1; and there is
\* an entry for every composite key of a level that is not skipped.
C7_AppendOrCreate ==
    SearchBuilt =>
        /\ \A k \in DOMAIN searchIndexMap :
            LET e == searchIndexMap[k] IN
            /\ e.indices # <<>>
            /\ StrictlyAscending(e.indices)
            /\ SeqRange(e.indices) =
                 {i \in FeatureIndices :
                    LET l == LevelNumber(e.level) IN
                    ~Skipped(i, l) /\ KeyAt(i, l) = k}
        /\ \A i \in FeatureIndices : \A l \in LevelNumbers :
            ~Skipped(i, l) => KeyAt(i, l) \in DOMAIN searchIndexMap

\* An index with an entry that was created and then appended to, and an
\* entry that was only created.
C7_Witness ==
    /\ SearchBuilt
    /\ \E k \in DOMAIN searchIndexMap : searchIndexMap[k].indices = <<0, 1>>
    /\ \E k \in DOMAIN searchIndexMap : searchIndexMap[k].indices = <<1>>

\* The raw value of a property: absent, null or a string.
RawProp(i, l) ==
    LET p == features[i + 1].properties IN
    IF p # Null /\ NameKey(l) \in DOMAIN p THEN p[NameKey(l)] ELSE Undefined

\* C8: every feature is listed by exactly one entry of each level, and by
\* none when the level's name is empty after trimming; an absent, null or
\* empty-string name reads as "Unknown" and is not skipped.
C8_OneEntryPerLevel ==
    SearchBuilt =>
        \A i \in FeatureIndices : \A l \in LevelNumbers :
            /\ Cardinality(EntriesWith(i, l)) = IF Skipped(i, l) THEN 0 ELSE 1
            /\ RawProp(i, l) \in {Undefined, Null, StringValue(EmptyString)} =>
                \E k \in EntriesWith(i, l) : searchIndexMap[k].name = Unknown

\* A feature whose cell name is blank (no Cell entry lists it) and whose
\* village name is the empty string (listed by the "Unknown" village).
C8_Witness ==
    /\ SearchBuilt
    /\ \E i \in FeatureIndices :
        /\ RawProp(i, 4) = StringValue(<<" ">>)
        /\ EntriesWith(i, 4) = {}
        /\ RawProp(i, 5) = StringValue(EmptyString)
        /\ \E k \in EntriesWith(i, 5) : searchIndexMap[k].name = Unknown

C10_LookupByKey ==
    /\ \A k \in DOMAIN searchIndexMap : searchIndexMap[k].id = k
    /\ pc = "looked" =>
        IF lookupKey \in DOMAIN searchIndexMap
        THEN highlightedRegion # Null /\ highlightedRegion.id = lookupKey
        ELSE highlightedRegion = Null

\* A lookup by a key that another feature array would hold, absent here.
C10_Witness ==
    /\ pc = "looked"
    /\ Len(features) > 0
    /\ lookupKey # EmptyString
    /\ lookupKey \notin DOMAIN searchIndexMap
    /\ highlightedRegion = Null


(***************************************************************************)
(* Properties of the search query.                                         *)
(***************************************************************************)
\* The search text of an entry: its name followed by its parent label.
SearchTextOf(item) == normalize(item.name \o <<" ">> \o item.parentsLabel)

\* The entries of the index that pass the filters of the last search.
Survivors ==
    IF Len(normalizedSearchQuery) < 2 /\ filterLevel = Null THEN {}
    ELSE {item \in SeqRange(searchIndex) :
            /\ filterLevel # Null => LevelValue(item.level) = filterLevel
            /\ Len(normalizedSearchQuery) >= 2 =>
                 includes(SearchTextOf(item), normalizedSearchQuery)}

\* The rank of an entry: <<name starts with the query, level, features>>.
Rank(item) ==
    <<IF Len(normalizedSearchQuery) >= 2
         /\ ~startsWith(normalize(item.name), normalizedSearchQuery) THEN 1 ELSE 0,
      LevelNumber(item.level),
      Len(item.indices)>>

LexLess(r, t) ==
    \/ r[1] < t[1]
    \/ r[1] = t[1] /\ r[2] < t[2]
    \/ r[1] = t[1] /\ r[2] = t[2] /\ r[3] < t[3]

NoDuplicates(seq) == \A a, b \in DOMAIN seq : a # b => seq[a] # seq[b]

\* C11: a query without a level keyword is its own text query, and a search
\* whose normalized text query has fewer than two characters, with no level
\* filter, returns the empty list.
C11_ShortQueryNoResults ==
    /\ ~hasTypePrefix(debouncedQuery) =>
         /\ filterLevel = Null
         /\ normalizedSearchQuery = normalize(debouncedQuery)
    /\ (Len(normalizedSearchQuery) < 2 /\ filterLevel = Null) => results = <<>>

\* A query of three characters that normalizes to one, over a index that
\* has entries.
C11_Witness ==
    /\ pc = "searched"
    /\ searchIndex # <<>>
    /\ debouncedQuery = <<" ", "K", "\t">>
    /\ normalizedSearchQuery = <<"k">>
    /\ results = <<>>

\* The query is a level keyword alone, in any case.
KeywordAlone(q) ==
    /\ hasTypePrefix(q)
    /\ \E k \in DOMAIN allTypePrefixes : toLowerCase(Tail(trim(q))) = allTypePrefixes[k]

\* C12: under a level filter every result has that level; for a level keyword
\* alone the results are all the entries of that level, or 50 of them, in
\* rank order and none outranked by an entry left out.
C12_LevelFilter ==
    /\ filterLevel # Null =>
         \A n \in DOMAIN results : LevelValue(results[n].level) = filterLevel
    /\ KeywordAlone(debouncedQuery) =>
         LET level == levelMap(toLowerCase(Tail(trim(debouncedQuery))))
             all == {item \in SeqRange(searchIndex) : LevelValue(item.level) = level}
         IN /\ filterLevel = level
            /\ NoDuplicates(results)
            /\ SeqRange(results) \subseteq all
            /\ Len(results) = (IF Cardinality(all) < MaxResults
                               THEN Cardinality(all) ELSE MaxResults)
            /\ \A n \in 1..(Len(results) - 1) :
                 Len(results[n].indices) <= Len(results[n + 1].indices)
            /\ \A item \in all \ SeqRange(results), n \in DOMAIN results :
                 Len(item.indices) >= Len(results[n].indices)

\* ":cell" over an index that has several cells and entries of other levels.
C12_Witness ==
    /\ pc = "searched"
    /\ debouncedQuery = Colon \o KwCell
    /\ Len(results) >= 2
    /\ Len(results) < Len(searchIndex)


\* C13: under a text query of two characters or more, every result's search
\* text (the normalized name, a space, the parent label) contains the query,
\* and an entry of the filtered level whose search text contains it is left
\* out only by a list that is full.
C13_TextFilter ==
    Len(normalizedSearchQuery) >= 2 =>
        /\ \A n \in DOMAIN results :
             /\ includes(SearchTextOf(results[n]), normalizedSearchQuery)
             /\ results[n] \in SeqRange(searchIndex)
        /\ \A item \in Survivors :
             item \in SeqRange(results) \/ Len(results) = MaxResults

\* A text query that keeps an entry by its parent label alone and drops
\* another entry.
C13_Witness ==
    /\ pc = "searched"
    /\ Len(normalizedSearchQuery) >= 2
    /\ \E n \in DOMAIN results :
         ~includes(normalize(results[n].name), normalizedSearchQuery)
    /\ \E item \in SeqRange(searchIndex) : item \notin SeqRange(results)
    /\ Len(results) < MaxResults

\* C14: the results are in rank order: of two adjacent results the second
\* never ranks before the first, by <<name starts with the query (for a
\* query of two characters or more), level, number of features>>.
C14_RankOrder ==
    \A n \in 1..(Len(results) - 1) :
        ~LexLess(Rank(results[n + 1]), Rank(results[n]))

\* A result list in which each of the three keys decides somewhere.
C14_Witness ==
    /\ pc = "searched"
    /\ \E n \in 1..(Len(results) - 1) :
         Rank(results[n])[1] < Rank(results[n + 1])[1]
    /\ \E n \in 1..(Len(results) - 1) :
         /\ Rank(results[n])[1] = Rank(results[n + 1])[1]
         /\ Rank(results[n])[2] < Rank(results[n + 1])[2]
    /\ \E n \in 1..(Len(results) - 1) :
         /\ Rank(results[n])[1] = Rank(results[n + 1])[1]
         /\ Rank(results[n])[2] = Rank(results[n + 1])[2]
         /\ Rank(results[n])[3] < Rank(results[n + 1])[3]

\* C15: a result list has at most 50 entries, and when more than 50 entries
\* pass the filters it has 50 of them, none outranked by an entry left out.
C15_TopFifty ==
    /\ Len(results) <= MaxResults
    /\ Cardinality(Survivors) > MaxResults =>
         /\ Len(results) = MaxResults
         /\ NoDuplicates(results)
         /\ SeqRange(results) \subseteq Survivors
         /\ \A item \in Survivors \ SeqRange(results), n \in DOMAIN results :
              ~LexLess(Rank(item), Rank(results[n]))

\* More than 50 entries pass, and one that is left out ranks after one that
\* came before it in the index.
C15_Witness ==
    /\ pc = "searched"
    /\ Cardinality(Survivors) > MaxResults
    /\ Len(results) = MaxResults
    /\ \E a, b \in DOMAIN searchIndex :
         /\ a < b
         /\ searchIndex[a] \in Survivors \ SeqRange(results)
         /\ searchIndex[b] \in SeqRange(results)


\* seq is sub with some elements left out, the others in their order.
\* sub is made of items of seq, in the order they have in seq (seq has no
\* duplicates).
IsSubsequence(sub, seq) ==
    sub = SelectSeq(seq, LAMBDA item : \E k \in DOMAIN sub : sub[k] = item)

\* C16: the two groups are disjoint, hold every result once between them and
\* keep the order of the results; a result is among the name matches only if
\* its normalized name contains the query or there is no query (fewer than
\* two characters), and among the parent-only matches only if its parent
\* label contains the query and its name does not.
C16_GroupingByNameOrParent ==
    LET names == groupedResults.nameMatches
        parents == groupedResults.parentOnlyMatches
    IN /\ SeqRange(names) \cap SeqRange(parents) = {}
       /\ SeqRange(names) \cup SeqRange(parents) = SeqRange(results)
       /\ Len(names) + Len(parents) = Len(results)
       /\ IsSubsequence(names, results)
       /\ IsSubsequence(parents, results)
       /\ \A n \in DOMAIN names :
            \/ Len(normalizedSearchQuery) < 2
            \/ includes(normalize(names[n].name), normalizedSearchQuery)
       /\ \A n \in DOMAIN parents :
            /\ includes(normalize(parents[n].parentsLabel), normalizedSearchQuery)
            /\ ~includes(normalize(parents[n].name), normalizedSearchQuery)

\* The text after the level keyword of a query ":keyword text": the query
\* trimmed, without the colon, the keyword and the white space after it.
RECURSIVE DropWord(_)
DropWord(str) ==
    IF str = <<>> \/ IsSpace(Head(str)) THEN str ELSE DropWord(Tail(str))

Keyword(q) == toLowerCase(split(Tail(trim(q)))[1])
Remainder(q) == trimStart(DropWord(Tail(trim(q))))

\* The query is ":" keyword, white space, remainder, the keyword recognized.
KeywordAndText(q) ==
    /\ hasTypePrefix(q)
    /\ \E k \in DOMAIN allTypePrefixes : Keyword(q) = allTypePrefixes[k]
    /\ Remainder(q) # EmptyString

\* C17: a query ":" keyword, white space, remainder filters by the level of
\* the keyword and searches for the whole remainder.
C17_RemainderIsTextQuery ==
    KeywordAndText(debouncedQuery) =>
        /\ filterLevel = LevelValue(Levels[CHOOSE k \in DOMAIN allTypePrefixes :
                                             Keyword(debouncedQuery) = allTypePrefixes[k]])
        /\ normalizedSearchQuery = normalize(Remainder(debouncedQuery))

\* C18: for a query that starts with ":", a first token that is none of the
\* five keywords gives no level filter and suggests exactly the keywords the
\* token is a prefix of (all five for ":" alone); a first token that is a
\* keyword gives a level filter and suggests nothing.
C18_SuggestionsOrFilter ==
    (pc = "searched" /\ hasTypePrefix(debouncedQuery)) =>
        LET token == Keyword(debouncedQuery)
            recognized == \E k \in DOMAIN allTypePrefixes : token = allTypePrefixes[k]
        IN IF recognized
           THEN /\ filterLevel # Null
                /\ typePrefixSuggestions = <<>>
           ELSE /\ filterLevel = Null
                /\ typePrefixSuggestions =
                     SelectSeq(allTypePrefixes, LAMBDA kw : startsWith(kw, token))


\* The index of the example: two features whose cell is "Kigali", in the
\* sectors "A" and "B" of the district "X", without a village name.
TwoKigaliCells ==
    /\ pc = "searched"
    /\ features \in {<<Named(KigaliA), Named(KigaliB)>>, <<Named(KigaliB), Named(KigaliA)>>}

QueryKigali == <<"k", "i", "g", "a", "l", "i">>
QueryVillageKigali == Colon \o KwVillage \o <<" ">> \o QueryKigali

\* The entries of a list are one per sector: one for feature 0 and one for
\* feature 1, each of that feature alone, of the given level and name.
OnePerSector(list, level, name) ==
    /\ Len(list) = 2
    /\ \A n \in DOMAIN list : list[n].level = level /\ list[n].name = name
    /\ {list[n].indices : n \in DOMAIN list} = {<<0>>, <<1>>}
    /\ list[1].parentsLabel # list[2].parentsLabel

\* C19 as stated: over the index of the example, "kigali" finds exactly the
\* two cells, one per sector, each of one feature, and ":village kigali"
\* finds nothing.
C19_TwoCellsAndNoVillage ==
    TwoKigaliCells =>
        /\ debouncedQuery = QueryKigali => OnePerSector(results, "Cell", Kigali)
        /\ debouncedQuery = QueryVillageKigali => results = <<>>

\* C19 as amended: a feature without a village name has the village
\* "Unknown", whose parent label ends with the cell, so "kigali" finds the
\* two cells (by name) and then the two "Unknown" villages (by parent label),
\* each of one feature, and ":village kigali" finds those two villages.
C19_TwoCellsAndTwoUnknownVillages ==
    TwoKigaliCells =>
        /\ debouncedQuery = QueryKigali =>
             /\ Len(results) = 4
             /\ OnePerSector(SubSeq(results, 1, 2), "Cell", Kigali)
             /\ OnePerSector(SubSeq(results, 3, 4), "Village", Unknown)
             /\ groupedResults.nameMatches = SubSeq(results, 1, 2)
             /\ groupedResults.parentOnlyMatches = SubSeq(results, 3, 4)
        /\ debouncedQuery = QueryVillageKigali =>
             OnePerSector(results, "Village", Unknown)

\* The search for ":village kigali" over the index of the example.
C19_Witness ==
    /\ TwoKigaliCells
    /\ debouncedQuery = QueryVillageKigali
    /\ Len(results) = 2
    /\ results[1].parentsLabel =
         East \o Dot \o <<"X">> \o Dot \o <<"A">> \o Dot \o Kigali


(***************************************************************************)
(* Properties of the coordinate parser.                                    *)
(***************************************************************************)
\* The pair is within the range of a latitude and of a longitude.
WithinRange(lat, lng) ==
    /\ -90 * lat.d <= lat.n /\ lat.n <= 90 * lat.d
    /\ -180 * lng.d <= lng.n /\ lng.n <= 180 * lng.d

\* The inputs of the model in which no pattern finds a match.
NoGrammarInputs ==
    { EmptyString, <<" ", "\t">>, <<"a", "b", "c">>, <<"1">>, <<"1", ",">>,
      <<",", "2">>, <<"-", ",", "2">>, <<"1", ".", "2", ".", "3", ",", "4">>,
      <<"1", "(deg)", "5", "4", "(apos)", "3", "5", ".", "2", "\"", "S">> }

\* C20: the result of parseCoordinates is null or a pair within range; an
\* input of no grammar, or one whose value is out of range, gives null, and
\* an input of a grammar whose value is within range gives that value as a
\* pair, (0, 0) included, never null.
C20_ParseNullOrInRange ==
    pc = "parsed" =>
        /\ parsed = Null \/ WithinRange(parsed.lat, parsed.lng)
        /\ input \in NoGrammarInputs => parsed = Null
        /\ \A c \in DecimalCases \cup DmsCases :
             input = c.text =>
                 parsed = IF c.grammar /\ WithinRange(c.lat, c.lng)
                          THEN [lat |-> c.lat, lng |-> c.lng]
                          ELSE Null

\* The pair (0, 0), parsed from a padded decimal input.
C20_Witness ==
    /\ pc = "parsed"
    /\ input = <<" ", "0", ",", " ", "0", " ">>
    /\ parsed = [lat |-> Rat(0, 1), lng |-> Rat(0, 1)]

(***************************************************************************)
(* Properties of the coordinate formatter.                                 *)
(***************************************************************************)
\* An angle in hundredths of an arc-second (every angle of the formatting
\* specification is a whole number of them).
Centis(a) == a.n * (360000 \div a.d)

\* The two angles differ by at most the number of hundredths given.
WithinCentis(a, b, centis) == Abs(Centis(a) - Centis(b)) <= centis

\* The result has no sign opposite to that of the value formatted.
SameSide(value, result) ==
    /\ value.n >= 0 => result.n >= 0
    /\ value.n < 0 => result.n <= 0

\* C21: for a latitude in [-90, 90] and a longitude in [-180, 180],
\* parseCoordinates(latLngToDMS(lat, lng)) is not null and each component of
\* it is within 0.1 arc-second of the value formatted
\* and on its side of zero.
C21_RoundTripWithinTenthOfSecond ==
    pc = "roundtrip" =>
        /\ parsed # Null
        /\ WithinCentis(parsed.lat, latLng.lat, 10)
        /\ WithinCentis(parsed.lng, latLng.lng, 10)
        /\ SameSide(latLng.lat, parsed.lat)
        /\ SameSide(latLng.lng, parsed.lng)

\* The round trip of a southern latitude whose seconds are written 60.0 and
\* of a western longitude: the pair parsed is (-90, -30 03'44.9").
C21_Witness ==
    /\ pc = "roundtrip"
    /\ latLng = [lat |-> Angle(-1, 89, 59, 5996), lng |-> Angle(-1, 30, 3, 4490)]
    /\ parsed = [lat |-> Rat(-90, 1), lng |-> Rat(-1082249, 36000)]

\* D(deg)MM(apos)S.s"H with H one of the letters given: any number of degree
\* digits without a sign, two minute digits, seconds with one decimal.
FormattedHalf(letters) ==
    <<Plus(DigitClass), One({"(deg)"}), One(DigitClass), One(DigitClass),
      One({"(apos)"}), Plus(DigitClass), One({"."}), One(DigitClass),
      One({"\""}), One(letters)>>

\* The text is a half of the format for the value: it has the shape of the
\* format, its letter is the one for the sign of the value, its degrees are
\* the whole degrees of the absolute value, and degrees, minutes and seconds
\* together are within half a tenth of a second of the absolute value.
IsFormatOf(text, value, positive, negative) ==
    LET ends == MatchFrom(FormattedHalf({positive, negative}), text, 1) IN
    /\ Len(ends) = 10
    /\ ends[10] = Len(text) + 1
    /\ text[Len(text)] = (IF value.n >= 0 THEN positive ELSE negative)
    /\ DigitsValue(Group(text, 1, ends, 0, 1), 0) = Abs(value.n) \div value.d
    /\ WithinCentis(RatAdd(RatAdd(parseFloat(Group(text, 1, ends, 0, 1)),
                                  RatDivInt(parseFloat(Group(text, 1, ends, 2, 4)), 60)),
                           RatDivInt(parseFloat(Group(text, 1, ends, 5, 8)), 3600)),
                    RatAbs(value), 5)

\* C22: decimalToDMS writes the absolute value as whole degrees, minutes of
\* two digits and seconds with one decimal, followed by N or S for a
\* latitude and E or W for a longitude, the first letter of each pair for a
\* value >= 0; the degrees carry no sign.
C22_FormatShape ==
    pc \in {"formatted", "roundtrip"} =>
        /\ Len(split(input)) = 2
        /\ IsFormatOf(split(input)[1], latLng.lat, "N", "S")
        /\ IsFormatOf(split(input)[2], latLng.lng, "E", "W")

\* A southern latitude with minutes below ten, and the longitude zero
\* written with E.
C22_Witness ==
    /\ pc = "formatted"
    /\ latLng = [lat |-> Angle(-1, 1, 0, 3520), lng |-> Angle(1, 0, 3, 0)]
    /\ input = <<"1", "(deg)", "0", "0", "(apos)", "3", "5", ".", "2", "\"", "S", " ",
                 "0", "(deg)", "0", "3", "(apos)", "0", ".", "0", "\"", "E">>

\* C27: the minutes written are in 00..59 and the seconds written are below
\* 60: the seconds never round up to 60.0.
C27_SecondsBelowSixty ==
    pc = "formatted" =>
        \A half \in {split(input)[1], split(input)[2]} :
            LET ends == MatchFrom(FormattedHalf({"N", "S", "E", "W"}), half, 1) IN
            Len(ends) = 10 =>
                /\ DigitsValue(Group(half, 1, ends, 2, 4), 0) <= 59
                /\ DigitsValue(Group(half, 1, ends, 5, 6), 0) < 60

(***************************************************************************)
(* Properties of the ring test.                                            *)
(***************************************************************************)
\* Every ring the exact test may be given: the rings of the Polygon and
\* MultiPolygon geometries of the feature array.
RingsOf(fs) ==
    UNION {IF fs[k].geometry.type = "Polygon"
           THEN SeqRange(fs[k].geometry.coordinates)
           ELSE IF fs[k].geometry.type = "MultiPolygon"
           THEN UNION {SeqRange(polygon) : polygon \in SeqRange(fs[k].geometry.coordinates)}
           ELSE {} : k \in DOMAIN fs}

\* The edges of a ring, each named by the position of its first endpoint:
\* the edge of position i joins ring[i] to the point before it (the last
\* point for i = 1).
EdgeFrom(ring, i) == <<ring[i], ring[IF i = 1 THEN Len(ring) ELSE i - 1]>>

\* The point is west of the line through lower and upper (upper having the
\* greater latitude) at the latitude of the point.
WestOfEdge(pt, lower, upper) ==
    (pt[1] - lower[1]) * (upper[2] - lower[2]) < (upper[1] - lower[1]) * (pt[2] - lower[2])

\* The edge crosses the ray under the rule of the claim: the latitude of the
\* point is strictly between those of the endpoints.
CrossesStrictly(pt, edge) ==
    LET lower == IF edge[1][2] <= edge[2][2] THEN edge[1] ELSE edge[2]
        upper == IF edge[1][2] <= edge[2][2] THEN edge[2] ELSE edge[1]
    IN lower[2] < pt[2] /\ pt[2] < upper[2] /\ WestOfEdge(pt, lower, upper)

\* The edge crosses the ray under the half-open rule: the latitude of the
\* point is at or above that of the lower endpoint and strictly below that
\* of the upper one.
CrossesHalfOpen(pt, edge) ==
    LET lower == IF edge[1][2] <= edge[2][2] THEN edge[1] ELSE edge[2]
        upper == IF edge[1][2] <= edge[2][2] THEN edge[2] ELSE edge[1]
    IN lower[2] <= pt[2] /\ pt[2] < upper[2] /\ WestOfEdge(pt, lower, upper)

\* C25 as stated: the ring test is the parity of the edges for which the
\* latitude of the point is strictly between the latitudes of the endpoints
\* and the point is west of the edge at that latitude.
C25_ToggleStrictlyBetween ==
    pc = "located" =>
        \A ring \in RingsOf(features) :
            isPointInRing(point, ring)
                = (Cardinality({i \in DOMAIN ring :
                                  CrossesStrictly(point, EdgeFrom(ring, i))}) % 2 = 1)

\* C25 amended: the ring test is the parity of the edges for which the
\* latitude of the point is at or above the latitude of the lower endpoint
\* and strictly below that of the upper endpoint, and the point is west of
\* the edge at that latitude.
C25_ToggleHalfOpen ==
    pc = "located" =>
        \A ring \in RingsOf(features) :
            isPointInRing(point, ring)
                = (Cardinality({i \in DOMAIN ring :
                                  CrossesHalfOpen(point, EdgeFrom(ring, i))}) % 2 = 1)

\* A point at the latitude of the lower endpoint of an edge, west of it:
\* the edge toggles the flag and the ring test of a triangle answers true.
C25_Witness ==
    /\ pc = "located"
    /\ \E ring \in RingsOf(features) :
         /\ Len(ring) = 4
         /\ \E i \in DOMAIN ring : EdgeFrom(ring, i)[1][1] # EdgeFrom(ring, i)[2][1]
                                     /\ EdgeFrom(ring, i)[1][2] # EdgeFrom(ring, i)[2][2]
         /\ isPointInRing(point, ring)
         /\ \E i \in DOMAIN ring :
              /\ CrossesHalfOpen(point, EdgeFrom(ring, i))
              /\ ~CrossesStrictly(point, EdgeFrom(ring, i))

(***************************************************************************)
(* The two implementations of the query.                                   *)
(***************************************************************************)
\* C26: for every feature array and every point, getVillageAtLatLng of
\* RwandaMap.tsx, which has no test against the overall box and relies on
\* the clamp of the cell, returns what getVillageAtLatLng of
\* useSpatialIndex.ts returns.
C26_MapLocateAgreesWithHook ==
    pc = "located" =>
        getVillageAtLatLngOfMap(features, spatialGridIndex, point).result = located

\* A point outside the overall box: the hook answers without reading a
\* cell, the component reads a clamped cell that lists a feature, and both
\* answer null.
C26_Witness ==
    /\ pc = "located"
    /\ cellRead = NotRead
    /\ located = Null
    /\ LET r == getVillageAtLatLngOfMap(features, spatialGridIndex, point) IN
         /\ IsNum(r.read)
         /\ Len(CandidateIndices(spatialGridIndex, r.read)) > 0
         /\ r.result = Null

(***************************************************************************)
(* The cells of the grid.                                                  *)
(***************************************************************************)
\* The rows (measure "south", "north" over the latitudes) or columns of the
\* grid that hold a point of the interval lo..hi of a box, a point being
\* held by the row or column the query computes for it: number r holds the
\* coordinates from min + r * range / gridSize up to the next one, the last
\* one those up to max as well.
OverlappedLines(lo, hi, min, max, gridSize) ==
    {r \in 0..(gridSize - 1) :
        /\ (hi - min) * gridSize >= r * (max - min)
        /\ \/ (lo - min) * gridSize < (r + 1) * (max - min)
           \/ r = gridSize - 1}

\* The list of a cell is strictly ascending and holds indices of features.
AscendingIndices(list, n) ==
    /\ \A a \in DOMAIN list : list[a] \in 0..(n - 1)
    /\ \A a, b \in DOMAIN list : a < b => list[a] < list[b]

\* C24: once the grid is built, the index of every feature is in the list of
\* every cell (row, col) that its bounding box overlaps, so the cell that a
\* query computes for a point inside the box of a feature lists the
\* feature; every key is in 0..gridSize*gridSize-1 and every list is
\* strictly ascending with indices in 0..n-1.
C24_FeatureInEveryOverlappedCell ==
    pc \in {"built", "located"} =>
        LET idx == spatialGridIndex
            n == Len(features)
        IN /\ \A k \in DOMAIN idx.grid :
                /\ k \in 0..(idx.gridSize * idx.gridSize - 1)
                /\ AscendingIndices(idx.grid[k], n)
           /\ \A i \in 1..n :
                LET b == GetBounds(features[i]) IN
                /\ \A row \in OverlappedLines(b.south, b.north, idx.minLat.v,
                                              idx.maxLat.v, idx.gridSize),
                      col \in OverlappedLines(b.west, b.east, idx.minLng.v,
                                              idx.maxLng.v, idx.gridSize) :
                      /\ row * idx.gridSize + col \in DOMAIN idx.grid
                      /\ \E a \in DOMAIN idx.grid[row * idx.gridSize + col] :
                            idx.grid[row * idx.gridSize + col][a] = i - 1
                /\ (pc = "located" /\ BoundsContains(b, point)) =>
                      \E a \in DOMAIN CandidateIndices(idx, GridKey(idx, point)) :
                          CandidateIndices(idx, GridKey(idx, point))[a] = i - 1

(***************************************************************************)
(* The frame specification: one component holds the grid and the search    *)
(* index, and calls of getVillageAtLatLng and runs of the results memo     *)
(* follow each other in any order.                                         *)
(***************************************************************************)
\* A variant in which the text filter hands on the array it was given.
SortsInPlace_TextFilterKeepsArray(nq, fl) == fl = Null

\* TRUE iff the array that filtered.sort(...) sorts in place is the
\* searchIndex array itself: Array.prototype.filter returns a new array,
\* so only when neither filter ran.
SortsInPlace(nq, fl) == fl = Null /\ Len(nq) < 2

\* The searchIndex array after a run of the results memo.
IndexAfterResults(index, nq, fl) ==
    IF Len(nq) < 2 /\ fl = Null THEN index
    ELSE IF SortsInPlace(nq, fl) THEN sort(FilterByText(FilterByLevel(index, fl), nq), nq)
    ELSE index

\* Two villages whose squares overlap.
FrameFeatures ==
    { [geometry |-> Polygon(<<Square(0, 0, 2, 2)>>),
       properties |-> Props(Rw, East, <<"X">>, <<"A">>, Ki, V1)],
      [geometry |-> Polygon(<<Square(1, 1, 3, 3)>>),
       properties |-> Props(Rw, Ki, <<"X">>, <<"A">>, <<"A", "k", "i">>, V2)] }

FramePoints == {<<1, 1>>, <<2, 2>>, <<3, 2>>, <<-1, 0>>}

FrameQueries == {Ki, Colon \o KwCell, <<"k">>}

InitFrame ==
    /\ features \in SeqsUpTo(FrameFeatures, MaxFeatures)
    /\ pc = "init"
    /\ spatialGridIndex = NoIndex
    /\ point = Null
    /\ located = Null
    /\ cellRead = NotRead
    /\ searchIndexMap = NoMap
    /\ mapKeys = <<>>
    /\ searchIndex = <<>>
    /\ lookupKey = EmptyString
    /\ highlightedRegion = Null
    /\ QueryIdle
    /\ CoordsIdle
    /\ EffectsIdle

\* The first render: every memo of the component and of its child runs.
Construct ==
    /\ pc = "init"
    /\ spatialGridIndex' = BuildSpatialGridIndex(features)
    /\ LET m == buildSearchIndexMap(features) IN
        /\ searchIndexMap' = m.items
        /\ mapKeys' = m.keys
        /\ searchIndex' = MapValues(m)
    /\ pc' = "served"
    /\ UNCHANGED <<features, point, located, cellRead, lookupKey, highlightedRegion>>
    /\ UNCHANGED queryVars
    /\ UNCHANGED coordVars
    /\ UNCHANGED effectVars

\* A call of getVillageAtLatLng: it reads the grid and writes nothing.
LocateCall(pt) ==
    /\ pc = "served"
    /\ LET r == getVillageAtLatLng(features, spatialGridIndex, pt) IN
        /\ located' = r.result
        /\ cellRead' = r.read
    /\ point' = pt
    /\ UNCHANGED <<features, pc, spatialGridIndex>>
    /\ UNCHANGED searchVars
    /\ UNCHANGED queryVars
    /\ UNCHANGED coordVars
    /\ UNCHANGED effectVars

\* The search box is set to q and its timer fires: the memos of the result
\* list run, the sort inside on the array it is handed.
SearchCall(q) ==
    /\ pc = "served"
    /\ query' = q
    /\ debouncedQuery' = q
    /\ typePrefixSuggestions' = Suggestions(q)
    /\ LET parse == ParseQuery(q)
           res == Results(searchIndex, parse.normalizedSearchQuery, parse.filterLevel)
       IN /\ filterLevel' = parse.filterLevel
          /\ normalizedSearchQuery' = parse.normalizedSearchQuery
          /\ results' = res
          /\ groupedResults' = GroupedResults(res, parse.normalizedSearchQuery)
          /\ searchIndex' = IndexAfterResults(searchIndex, parse.normalizedSearchQuery,
                                              parse.filterLevel)
    /\ UNCHANGED <<features, pc, searchIndexMap, mapKeys, lookupKey, highlightedRegion>>
    /\ UNCHANGED spatialVars
    /\ UNCHANGED coordVars
    /\ UNCHANGED effectVars

NextFrame ==
    \/ Construct
    \/ \E pt \in FramePoints : LocateCall(pt)
    \/ \E q \in FrameQueries : SearchCall(q)

SpecFrame == InitFrame /\ [][NextFrame]_vars

\* C23: after any sequence of getVillageAtLatLng calls and runs of the
\* results memo, in any order, the grid and the search entries (keys,
\* fields, index lists and their order) are what construction produced, and
\* the result of the last call and of the last search is the one the same
\* input gives on the indexes as constructed.
C23_QueriesLeaveIndexesAsBuilt ==
    pc = "served" =>
        LET built == [items |-> searchIndexMap, keys |-> mapKeys]
            parse == ParseQuery(debouncedQuery)
        IN /\ spatialGridIndex = BuildSpatialGridIndex(features)
           /\ built = buildSearchIndexMap(features)
           /\ searchIndex = MapValues(built)
           /\ point # Null =>
                located = getVillageAtLatLng(features, spatialGridIndex, point).result
           /\ results = Results(MapValues(built), parse.normalizedSearchQuery,
                                parse.filterLevel)

\* A feature was located and a search listed entries in an order other than
\* the order of the index.
C23_Witness ==
    /\ pc = "served"
    /\ located # Null
    /\ Len(results) >= 2
    /\ ~IsSubsequence(results, searchIndex)

(***************************************************************************)
(* The URL parameter hook (useUrlParam): one instance of the hook, the     *)
(* values its setter is given, and the timer of its debounced write.       *)
(***************************************************************************)
\* useUrlParam<string>("search", "", 300) in LocationSearch.
SearchDebounceMs == 300

\* setTimeout(callback, delay), the callback closed over arg.
SetTimeout(ts, callback, arg) == Append(ts, [callback |-> callback, arg |-> arg])

RemoveAt(ts, i) == SubSeq(ts, 1, i - 1) \o SubSeq(ts, i + 1, Len(ts))

\* A variant in which the cleanup of an effect clears nothing.
ClearTimeout_Ignored(ts, callback, arg) == ts

\* clearTimeout(timeoutId), timeoutId the timer that the previous run of an
\* effect set for callback with arg: the newest such timer; nothing happens
\* when it has fired.
ClearTimeout(ts, callback, arg) ==
    LET set == {i \in DOMAIN ts : ts[i] = [callback |-> callback, arg |-> arg]} IN
    IF set = {} THEN ts
    ELSE RemoveAt(ts, CHOOSE i \in set : \A j \in set : j <= i)

\* (params.get(key) as T) || defaultValue
InitialValue(loc, key, def) ==
    IF loc[key] # Absent /\ loc[key].s # EmptyString THEN loc[key].s ELSE def

\* updateUrl: the parameter is set when the value is non-empty and not the
\* default, and deleted otherwise; replaceState keeps the other parameters.
updateUrl(loc, key, v, def) ==
    [loc EXCEPT ![key] = IF v # EmptyString /\ v # def THEN StringValue(v) ELSE Absent]

\* The effect of useUrlParam for a value v that replaces old: the cleanup of
\* the previous run, then the new run.
UrlEffect(loc, ts, key, old, v, def, ms) ==
    IF ms > 0
    THEN [location |-> loc,
          timers |-> SetTimeout(ClearTimeout(ts, "updateUrl", old), "updateUrl", v)]
    ELSE [location |-> updateUrl(loc, key, v, def), timers |-> ts]

\* The values of the parameter in the model.
ParamValues == {EmptyString, <<"a">>, <<"b">>, <<"c">>}

InitUrl ==
    /\ features = <<>>
    /\ pc = "init"
    /\ spatialGridIndex = NoIndex
    /\ point = Null
    /\ located = Null
    /\ cellRead = NotRead
    /\ searchIndexMap = NoMap
    /\ mapKeys = <<>>
    /\ searchIndex = <<>>
    /\ lookupKey = EmptyString
    /\ highlightedRegion = Null
    /\ QueryIdle
    /\ CoordsIdle
    /\ location \in {[k \in UrlKeys |-> IF k = "search" THEN v
                                          ELSE IF k = "selected" THEN other ELSE Absent] :
                        v \in {StringValue(chars) : chars \in ParamValues} \cup {Absent},
                        other \in {Absent, StringValue(<<"x">>)}}
    /\ paramValue = EmptyString
    /\ defaultValue \in {EmptyString, <<"a">>}
    /\ debounceMs \in {0, SearchDebounceMs}
    /\ timers = <<>>
    /\ selectedId = EmptyString
    /\ mapReady = FALSE
    /\ hasInitialZoomed = FALSE
    /\ zooms = <<>>
    /\ clearedIds = {}

\* The first render of the component that uses the hook: useState reads the
\* URL, and the effect runs for the first time (there is no cleanup yet).
MountHook ==
    /\ pc = "init"
    /\ pc' = "mounted"
    /\ LET v == InitialValue(location, "search", defaultValue)
           e == IF debounceMs > 0
                THEN [location |-> location, timers |-> SetTimeout(timers, "updateUrl", v)]
                ELSE [location |-> updateUrl(location, "search", v, defaultValue),
                      timers |-> timers]
       IN /\ paramValue' = v
          /\ location' = e.location
          /\ timers' = e.timers
    /\ UNCHANGED <<features, defaultValue, debounceMs, selectedId, mapReady,
                   hasInitialZoomed, zooms, clearedIds>>
    /\ UNCHANGED spatialVars
    /\ UNCHANGED searchVars
    /\ UNCHANGED queryVars
    /\ UNCHANGED coordVars

\* updateValue(v) with a value other than the current one, and the render
\* it causes: the effect is cleaned up and runs again.  (A call with the
\* current value changes no state and causes no render.)
SetValue(v) ==
    /\ pc = "mounted"
    /\ v # paramValue
    /\ paramValue' = v
    /\ LET e == UrlEffect(location, timers, "search", paramValue, v, defaultValue,
                          debounceMs)
       IN /\ location' = e.location
          /\ timers' = e.timers
    /\ UNCHANGED <<features, pc, defaultValue, debounceMs, selectedId, mapReady,
                   hasInitialZoomed, zooms, clearedIds>>
    /\ UNCHANGED spatialVars
    /\ UNCHANGED searchVars
    /\ UNCHANGED queryVars
    /\ UNCHANGED coordVars

\* A timer of the hook fires: updateUrl runs with the value its effect saw.
UpdateUrlFires(i) ==
    /\ pc = "mounted"
    /\ i \in DOMAIN timers
    /\ timers[i].callback = "updateUrl"
    /\ location' = updateUrl(location, "search", timers[i].arg, defaultValue)
    /\ timers' = RemoveAt(timers, i)
    /\ UNCHANGED <<features, pc, paramValue, defaultValue, debounceMs, selectedId,
                   mapReady, hasInitialZoomed, zooms, clearedIds>>
    /\ UNCHANGED spatialVars
    /\ UNCHANGED searchVars
    /\ UNCHANGED queryVars
    /\ UNCHANGED coordVars

MaxTimers == 3        \* most timers pending at a time

NextUrl ==
    \/ MountHook
    \/ \E v \in ParamValues : SetValue(v)
    \/ \E i \in 1..MaxTimers : UpdateUrlFires(i)

SpecUrl == InitUrl /\ [][NextUrl]_vars

\* The component is mounted, and a timer that is set fires in the end.
SpecUrlFair ==
    /\ SpecUrl
    /\ WF_vars(MountHook)
    /\ WF_vars(\E i \in 1..MaxTimers : UpdateUrlFires(i))

\* What the URL holds for a value: nothing for the empty string and for
\* the default.
UrlOf(v, def) == IF v # EmptyString /\ v # def THEN StringValue(v) ELSE Absent

\* C30: in useUrlParam with debounceMs > 0 a pending write is cancelled when
\* the value changes, so that every pending write holds the current value
\* and a write that happens writes the current value; once the value stops
\* changing, the URL parameter is in the end the last value, or absent when
\* that value is empty or the default.  With debounceMs = 0 every change of
\* the value updates the URL in the same step.
C30_DebouncedWriteIsOfLastValue ==
    /\ [](\A i \in DOMAIN timers : timers[i].arg = paramValue)
    /\ [][(location'["search"] # location["search"])
            => location'["search"] = UrlOf(paramValue', defaultValue)]_vars
    /\ (<>[][paramValue' = paramValue]_vars)
          => <>[](pc = "mounted"
                  /\ location["search"] = UrlOf(paramValue, defaultValue))
    /\ [][(debounceMs = 0 /\ paramValue' # paramValue)
            => location'["search"] = UrlOf(paramValue', defaultValue)]_vars

\* A debounced write was cancelled: the value changed twice, the parameter
\* still has the value of before, and one timer is pending, for the last
\* value.
C30_Witness ==
    /\ pc = "mounted"
    /\ debounceMs > 0
    /\ paramValue = <<"c">>
    /\ location["search"] = StringValue(<<"b">>)
    /\ Len(timers) = 1
    /\ timers[1].arg = <<"c">>

(***************************************************************************)
(* The map component (RwandaMap): the selected and highlight parameters of *)
(* the URL, the memos that resolve them, the effects that clear a value    *)
(* that resolves to nothing, and the effect of the initial zoom with its   *)
(* timers.                                                                 *)
(***************************************************************************)
\* getLabel(p, key) of RwandaMap.tsx.
getLabel(p, key) ==
    LET v == IF p # Null /\ key \in DOMAIN p THEN p[key] ELSE Undefined IN
    IF v = Null \/ v = Undefined \/ v = StringValue(EmptyString)
    THEN Unknown ELSE v.s

\* featureId(p): the six identifiers joined by "-".
featureId(p) ==
    getLabel(p, "ID_0") \o <<"-">> \o getLabel(p, "ID_1") \o <<"-">>
        \o getLabel(p, "ID_2") \o <<"-">> \o getLabel(p, "ID_3") \o <<"-">>
        \o getLabel(p, "ID_4") \o <<"-">> \o getLabel(p, "ID_5")

\* features.find((f) => featureId(f.properties) === id): an index or 0.
FindFeature(fs, id) ==
    IF \E i \in DOMAIN fs : featureId(fs[i].properties) = id
    THEN CHOOSE i \in DOMAIN fs :
            /\ featureId(fs[i].properties) = id
            /\ \A j \in 1..(i - 1) : featureId(fs[j].properties) # id
    ELSE 0

\* The selected memo: feature?.properties ?? null.
SelectedOf(fs, id) ==
    IF id = EmptyString \/ FindFeature(fs, id) = 0 THEN Null
    ELSE fs[FindFeature(fs, id)].properties

\* The call checkAndZoom makes once the map is there, for the selected and
\* highlightedRegion of the render whose effect set the timer.
ZoomCall(fs, closure) ==
    IF closure.selected # Null /\ FindFeature(fs, featureId(closure.selected)) > 0
    THEN [call |-> "fitToIndices",
          indices |-> <<FindFeature(fs, featureId(closure.selected)) - 1>>]
    ELSE IF closure.highlightedRegion # Null
    THEN [call |-> "fitToIndices", indices |-> closure.highlightedRegion.indices]
    ELSE [call |-> "zoomToRwanda", indices |-> <<>>]

\* The state of the render that an effect run closes over.
Closure(fs, sel, region, start) ==
    [selected |-> SelectedOf(fs, sel), highlightedRegion |-> region, start |-> start]

\* The first run of the initial-zoom effect.
ZoomEffectOnMount(ts, fs, new, zoomed) ==
    IF zoomed \/ Len(fs) = 0 THEN ts ELSE SetTimeout(ts, "checkAndZoom", new)

\* The initial-zoom effect after a render: when selected or
\* highlightedRegion changed, the cleanup of the previous run clears its
\* start timer and the effect runs again.
ZoomEffect(ts, fs, old, new, zoomed) ==
    IF old = new THEN ts
    ELSE ZoomEffectOnMount(ClearTimeout(ts, "checkAndZoom", old), fs, new, zoomed)

Village(id5, name5) ==
    [ID_0 |-> StringValue(<<"1">>), ID_1 |-> StringValue(<<"1">>),
     ID_2 |-> StringValue(<<"1">>), ID_3 |-> StringValue(<<"1">>),
     ID_4 |-> StringValue(<<"1">>), ID_5 |-> StringValue(id5),
     NAME_0 |-> StringValue(Rw), NAME_1 |-> StringValue(East),
     NAME_2 |-> StringValue(<<"X">>), NAME_3 |-> StringValue(<<"A">>),
     NAME_4 |-> StringValue(Ki), NAME_5 |-> StringValue(name5)]

VillageA == Named(Village(<<"1">>, V1))
VillageB == Named(Village(<<"2">>, V2))

\* The feature arrays of the map: none, one, two villages, and a village
\* before a feature whose properties are null.
MapFeatureArrays == {<<>>, <<VillageA>>, <<VillageA, VillageB>>, <<VillageA, Named(Null)>>}

\* The values the URL has for selected when the page is loaded.
SelectedParams ==
    {Absent, StringValue(featureId(VillageA.properties)), StringValue(<<"x">>),
     StringValue(featureId(Null))}

\* The values the URL has for highlight when the page is loaded.
HighlightParams ==
    {Absent, StringValue(ItemKey("Province", East, Rw)), StringValue(<<"Cell", ":", "x">>)}

InitMap ==
    /\ features \in MapFeatureArrays
    /\ pc = "init"
    /\ spatialGridIndex = NoIndex
    /\ point = Null
    /\ located = Null
    /\ cellRead = NotRead
    /\ searchIndexMap = NoMap
    /\ mapKeys = <<>>
    /\ searchIndex = <<>>
    /\ lookupKey = EmptyString
    /\ highlightedRegion = Null
    /\ QueryIdle
    /\ CoordsIdle
    /\ location \in {[k \in UrlKeys |-> IF k = "selected" THEN s
                                          ELSE IF k = "highlight" THEN h ELSE Absent] :
                        s \in SelectedParams, h \in HighlightParams}
    /\ paramValue = EmptyString
    /\ defaultValue = EmptyString
    /\ debounceMs = 0
    /\ timers = <<>>
    /\ selectedId = EmptyString
    /\ mapReady = FALSE
    /\ hasInitialZoomed = FALSE
    /\ zooms = <<>>
    /\ clearedIds = {}

\* The rest of the first render, after the searchIndexMap memo: both hooks
\* read the URL, the other memos run, and the effects run for the first
\* time.
MountMap ==
    /\ pc = "mapbuilt"
    /\ pc' = "mounted"
    /\ selectedId' = InitialValue(location, "selected", EmptyString)
    /\ lookupKey' = InitialValue(location, "highlight", EmptyString)
    /\ highlightedRegion' = HighlightedRegionOf(searchIndexMap, lookupKey')
    /\ location' = updateUrl(updateUrl(location, "selected", selectedId', EmptyString),
                             "highlight", lookupKey', EmptyString)
    /\ timers' = ZoomEffectOnMount(timers, features,
                                   Closure(features, selectedId', highlightedRegion',
                                           TRUE),
                                   hasInitialZoomed)
    /\ UNCHANGED <<features, searchIndexMap, mapKeys, searchIndex, paramValue,
                   defaultValue, debounceMs, mapReady, hasInitialZoomed, zooms,
                   clearedIds>>
    /\ UNCHANGED spatialVars
    /\ UNCHANGED queryVars
    /\ UNCHANGED coordVars

\* setSelectedId(sel) and setHighlightedId(hl) in one event, and the render
\* that follows: the URL effects of both hooks (debounceMs = 0), the memos,
\* and the initial-zoom effect when one of its dependencies changed.
Render(sel, hl) ==
    /\ selectedId' = sel
    /\ lookupKey' = hl
    /\ highlightedRegion' = HighlightedRegionOf(searchIndexMap, hl)
    /\ location' = updateUrl(updateUrl(location, "selected", sel, EmptyString),
                             "highlight", hl, EmptyString)
    /\ timers' = ZoomEffect(timers, features,
                            Closure(features, selectedId, highlightedRegion, TRUE),
                            Closure(features, sel,
                                    HighlightedRegionOf(searchIndexMap, hl), TRUE),
                            hasInitialZoomed)
    /\ Len(timers') <= MaxTimers
    /\ UNCHANGED <<features, pc, searchIndexMap, mapKeys, searchIndex, paramValue,
                   defaultValue, debounceMs, mapReady, hasInitialZoomed, zooms>>
    /\ UNCHANGED spatialVars
    /\ UNCHANGED queryVars
    /\ UNCHANGED coordVars

\* handleMapClick: the click found feature hit (1-based), or none (0).
MapClick(hit) ==
    /\ pc = "mounted"
    /\ mapReady
    /\ IF hit > 0
       THEN Render(featureId(features[hit].properties), EmptyString)
       ELSE Render(EmptyString, lookupKey)
    /\ UNCHANGED clearedIds

\* onPick(item) for the item of the search index with this key.
Pick(key) ==
    /\ pc = "mounted"
    /\ key \in DOMAIN searchIndexMap
    /\ LET item == searchIndexMap[key]
           first == features[item.indices[1] + 1]
       IN IF item.level = "Village"
          THEN Render(IF first.properties # Null THEN featureId(first.properties)
                      ELSE EmptyString, EmptyString)
          ELSE Render(EmptyString, item.id)
    /\ UNCHANGED clearedIds

\* The effect that clears a selected value that resolves to nothing.
ClearInvalidSelected ==
    /\ pc = "mounted"
    /\ selectedId # EmptyString
    /\ SelectedOf(features, selectedId) = Null
    /\ Render(EmptyString, lookupKey)
    /\ clearedIds' = clearedIds \cup {[key |-> "selected", id |-> selectedId]}

\* The effect that clears a highlight value that resolves to nothing.
ClearInvalidHighlight ==
    /\ pc = "mounted"
    /\ lookupKey # EmptyString
    /\ highlightedRegion = Null
    /\ Render(selectedId, EmptyString)
    /\ clearedIds' = clearedIds \cup {[key |-> "highlight", id |-> lookupKey]}

\* MapContainer has created the map: mapRef.current is set.
MapBecomesReady ==
    /\ pc = "mounted"
    /\ ~mapReady
    /\ mapReady' = TRUE
    /\ UNCHANGED <<features, pc, location, paramValue, defaultValue, debounceMs,
                   timers, selectedId, hasInitialZoomed, zooms, clearedIds>>
    /\ UNCHANGED spatialVars
    /\ UNCHANGED searchVars
    /\ UNCHANGED queryVars
    /\ UNCHANGED coordVars

\* A timer of the initial-zoom effect fires: checkAndZoom sets a retry timer
\* when the map is not there, and zooms otherwise.
CheckAndZoom(i) ==
    /\ pc = "mounted"
    /\ i \in DOMAIN timers
    /\ timers[i].callback = "checkAndZoom"
    /\ IF ~mapReady
       THEN /\ timers' = SetTimeout(RemoveAt(timers, i), "checkAndZoom",
                                    [timers[i].arg EXCEPT !.start = FALSE])
            /\ UNCHANGED <<zooms, hasInitialZoomed>>
       ELSE /\ timers' = RemoveAt(timers, i)
            /\ zooms' = Append(zooms, ZoomCall(features, timers[i].arg))
            /\ hasInitialZoomed' = TRUE
    /\ UNCHANGED <<features, pc, location, paramValue, defaultValue, debounceMs,
                   selectedId, mapReady, clearedIds>>
    /\ UNCHANGED spatialVars
    /\ UNCHANGED searchVars
    /\ UNCHANGED queryVars
    /\ UNCHANGED coordVars

NextMap ==
    \/ BuildSearchIndexMap
    \/ MountMap
    \/ \E hit \in 0..MaxFeatures : hit <= Len(features) /\ MapClick(hit)
    \/ \E key \in {ItemKey("Province", East, Rw)} \cup
                  {k \in DOMAIN searchIndexMap : searchIndexMap[k].level = "Village"} :
          Pick(key)
    \/ ClearInvalidSelected
    \/ ClearInvalidHighlight
    \/ MapBecomesReady
    \/ \E i \in 1..MaxTimers : CheckAndZoom(i)

SpecMap == InitMap /\ [][NextMap]_vars

\* The component is mounted, and React runs the effects of every render.
SpecMapFair ==
    /\ SpecMap
    /\ WF_vars(MountMap)
    /\ WF_vars(ClearInvalidSelected)
    /\ WF_vars(ClearInvalidHighlight)

\* C28: the initial-zoom effect calls fitToIndices or zoomToRwanda at most
\* once per mounted map, however the start timer, the retries, the map
\* becoming ready and the re-runs of the effect are ordered.
C28_InitialZoomAtMostOnce == Len(zooms) <= 1

\* The URL value of selected is non-empty and is the id of no feature.
SelectedIsNoFeature(id) ==
    id # EmptyString /\ \A i \in DOMAIN features : featureId(features[i].properties) # id

\* The URL value of highlight is non-empty and is no key of the search index
\* (the searchIndexMap memo).
HighlightIsNoKey(id) == id # EmptyString /\ id \notin DOMAIN searchIndexMap

\* value or "" for a parameter of the URL.
ParamOf(key) == IF location[key] = Absent THEN EmptyString ELSE location[key].s

\* C29: a selected value of the URL that is non-empty and the id of no
\* feature, and a highlight value that is non-empty and no key of the
\* search index, is reset in the end: the state is the empty string and the
\* parameter is gone from the URL (unless the user has set a value that
\* resolves); the effects never clear a value that is the id of a feature
\* or a key of the index.
C29_UnresolvedValuesAreCleared ==
    /\ (pc # "init" /\ SelectedIsNoFeature(ParamOf("selected")))
          ~> \/ (pc = "mounted" /\ selectedId = EmptyString
                                /\ location["selected"] = Absent)
             \/ (pc = "mounted" /\ ~SelectedIsNoFeature(selectedId))
    /\ (pc # "init" /\ HighlightIsNoKey(ParamOf("highlight")))
          ~> \/ (pc = "mounted" /\ lookupKey = EmptyString
                                /\ location["highlight"] = Absent)
             \/ (pc = "mounted" /\ ~HighlightIsNoKey(lookupKey))
    /\ [](\A c \in clearedIds :
             IF c.key = "selected" THEN SelectedIsNoFeature(c.id)
             ELSE HighlightIsNoKey(c.id))

====
